---- MODULE Spec2Model ----
(***************************************************************************)
(* Buffered I/O engine (fs/iomap/buffered-io.c): the per-folio sub-block   *)
(* state record (struct iomap_page), the read and readahead actors with    *)
(* their asynchronous completion, write_begin / write_end, and the         *)
(* writeback ioend batching with its completion.                           *)
(*                                                                         *)
(* Offsets and lengths are bytes.  A folio is one page of                  *)
(* blocks_per_folio blocks of BlockSize bytes.  Sectors are counted in     *)
(* blocks.                                                                 *)
(***************************************************************************)
EXTENDS Integers, Sequences, FiniteSets, TLC

\* ---------------------------------------------------------------- bounds
MaxFolios == 2
MaxFileBlocks == 4
BlockBits == 1
BioMaxVecs == 1
MaxFairBlocks == 2

MaxMarkers == 2
BlockSize == 2 ^ BlockBits
\* the files modelled: nr_folios page-cache folios of blocks_per_folio blocks
Configs ==
    {c \in (1 .. MaxFolios) \X {1, 2, 4, 8} : c[1] * c[2] <= MaxFileBlocks}
ExtentShifts == {0, 16}
NoFolio == -1

VARIABLES
    nr_folios,          \* folios of the file's mapping, fixed per run
    blocks_per_folio,   \* i_blocks_per_folio(inode, folio), fixed per run
    i_size,             \* inode->i_size
    folio,              \* page cache: folio index -> flags and iomap_page
    rctx,               \* the reader: struct iomap_readpage_ctx and its loop
    rbios,              \* read bios submitted and not yet completed
    wctx,               \* the writer: between write_begin and write_end
    wpc,                \* the writeback pass: struct iomap_writepage_ctx
    wios,               \* ioends submitted and not yet finished
    ioend_list,         \* completed ioends queued for deferred completion
    ioend_merged,       \* the ioend iomap_ioend_try_merge returned
    ioends_sorted,      \* not kernel state: iomap_sort_ioends ran on
                        \* ioend_list since an ioend was last queued
    ioends_finished,    \* not kernel state: how many ioends the last
                        \* iomap_finish_ioends finished
    wb_err,             \* the mapping's recorded writeback error
    markers             \* the callers inside iomap_set_range_uptodate one
                        \* step at a time, and who holds uptodate_lock

vars == <<nr_folios, blocks_per_folio, i_size, folio, rctx, rbios, wctx,
          wpc, wios, wb_err, ioend_list, ioend_merged, ioends_sorted,
          ioends_finished, markers>>
endio == <<ioend_list, ioend_merged, ioends_sorted, ioends_finished>>
wbvars == <<wpc, wios, wb_err>>
conf == <<nr_folios, blocks_per_folio>>

Pages == 0 .. nr_folios - 1

PageSize == blocks_per_folio * BlockSize
Blocks == 0 .. blocks_per_folio - 1
Min(a, b) == IF a < b THEN a ELSE b
Max(a, b) == IF a > b THEN a ELSE b
round_down(x, m) == (x \div m) * m
round_up(x, m) == ((x + m - 1) \div m) * m

\* ------------------------------------------------------- page cache store
\* unlock_folio: unlocking a folio that is not locked is a VM_BUG_ON.
unlock_folio(f, p) ==
    IF f[p].locked = "none"
    THEN [f EXCEPT ![p].bad = @ \cup {"unlock_unlocked"}]
    ELSE [f EXCEPT ![p].locked = "none"]

lock_folio(f, p, who) == [f EXCEPT ![p].locked = who]

\* A folio newly added to the page cache.  Three fields are not kernel state:
\* bad collects the WARN_ON / BUG_ON sites that fired on the folio, fresh the
\* blocks holding bytes of a write that reported success and that writeback
\* has not yet walked, clobbered whether the read path refilled such a block.
NewFolio == [locked |-> "none", dirty |-> FALSE, writeback |-> FALSE,
             error |-> FALSE, uptodate |-> FALSE, private |-> FALSE,
             uptodate_bits |-> {}, read_bytes_pending |-> 0,
             write_bytes_pending |-> 0, bad |-> {}, fresh |-> {},
             clobbered |-> FALSE]

\* the blocks touching the byte range [off, off + len) of a folio
BlocksTouching(off, len) ==
    IF len <= 0 THEN {}
    ELSE (off \div BlockSize) .. ((off + len - 1) \div BlockSize)

\* the blocks the read path and writeback treat as holding valid data
ValidBlocks(fo) ==
    IF fo.private THEN fo.uptodate_bits
    ELSE IF fo.uptodate THEN Blocks ELSE {}

\* ---------------------------------------------------- sub-block tracker
\* iomap_page_create that allocates a record whether one is attached or not
page_create_always(f, p) ==
    IF blocks_per_folio <= 1
    THEN f
    ELSE [f EXCEPT ![p].private = TRUE,
                   ![p].read_bytes_pending = 0,
                   ![p].write_bytes_pending = 0,
                   ![p].uptodate_bits = IF f[p].uptodate THEN Blocks ELSE {}]

iomap_page_create(f, p) ==
    IF f[p].private \/ blocks_per_folio <= 1
    THEN f
    ELSE [f EXCEPT ![p].private = TRUE,
                   ![p].read_bytes_pending = 0,
                   ![p].write_bytes_pending = 0,
                   ![p].uptodate_bits = IF f[p].uptodate THEN Blocks ELSE {}]

\* the least element of S, or none when S is empty
FirstIn(S, none) ==
    IF S = {} THEN none ELSE CHOOSE i \in S : \A j \in S : i <= j

\* iomap_adjust_read_range that leaves *pos where the request starts
adjust_read_range_eof_keeps_pos(pos, length, isize, first0, last0, first, last) ==
    LET plen == Min(PageSize - (pos % PageSize), length)
                - (first - first0) * BlockSize - (last0 - last) * BlockSize
        end == ((isize - 1) % PageSize) \div BlockSize
    IN  [pos |-> pos,
         poff |-> (pos % PageSize) + (first - first0) * BlockSize,
         plen |-> IF pos <= isize /\ pos + length > isize
                     /\ first <= end /\ last > end
                  THEN plen - (last - end) * BlockSize
                  ELSE plen]

\* iomap_adjust_read_range, the i_size clip: first0 .. last0 are the blocks
\* of the request inside the folio, first .. last the span the two bitmap
\* loops left of them; the span is cut at the block holding i_size - 1
iomap_adjust_read_range_eof(pos, length, isize, first0, last0, first, last) ==
    LET plen == Min(PageSize - (pos % PageSize), length)
                - (first - first0) * BlockSize - (last0 - last) * BlockSize
        end == ((isize - 1) % PageSize) \div BlockSize
    IN  [pos |-> pos + (first - first0) * BlockSize,
         poff |-> (pos % PageSize) + (first - first0) * BlockSize,
         plen |-> IF pos <= isize /\ pos + length > isize
                     /\ first <= end /\ last > end
                  THEN plen - (last - end) * BlockSize
                  ELSE plen]

\* iomap_adjust_read_range without its second loop
adjust_read_range_no_trim(fo, pos, length, isize, first0, last0, i) ==
    iomap_adjust_read_range_eof(pos, length, isize, first0, last0, i, last0)

\* the second loop: the span is cut before the next uptodate block after i
iomap_adjust_read_range_trail(fo, pos, length, isize, first0, last0, i) ==
    iomap_adjust_read_range_eof(pos, length, isize, first0, last0, i,
        IF fo.private
        THEN FirstIn({j \in (i + 1) .. last0 : j \in fo.uptodate_bits},
                     last0 + 1) - 1
        ELSE last0)

\* the first loop: the leading uptodate blocks are skipped
iomap_adjust_read_range_lead(fo, pos, length, isize, first0, last0) ==
    iomap_adjust_read_range_trail(fo, pos, length, isize, first0, last0,
        IF fo.private
        THEN FirstIn({i \in first0 .. last0 : i \notin fo.uptodate_bits},
                     last0 + 1)
        ELSE first0)

iomap_adjust_read_range(f, p, pos, length, isize) ==
    iomap_adjust_read_range_lead(f[p], pos, length, isize,
        (pos % PageSize) \div BlockSize,
        ((pos % PageSize) + Min(PageSize - (pos % PageSize), length) - 1)
            \div BlockSize)

\* iomap_iop_set_range_uptodate that stores the range over the bitmap
iop_set_range_uptodate_overwrites(f, p, off, len) ==
    LET first == off \div BlockSize
        last == (off + len - 1) \div BlockSize
        nb == first .. last
    IN  [f EXCEPT ![p].uptodate_bits = nb,
                  ![p].uptodate = IF nb = Blocks THEN TRUE ELSE @]

iomap_iop_set_range_uptodate(f, p, off, len) ==
    LET first == off \div BlockSize
        last == (off + len - 1) \div BlockSize
        nb == f[p].uptodate_bits \cup (first .. last)
    IN  [f EXCEPT ![p].uptodate_bits = nb,
                  ![p].uptodate = IF nb = Blocks THEN TRUE ELSE @]

\* iomap_set_range_uptodate without the test of the error flag
set_range_uptodate_despite_error(f, p, off, len) ==
    IF f[p].private THEN iomap_iop_set_range_uptodate(f, p, off, len)
    ELSE [f EXCEPT ![p].uptodate = TRUE]

iomap_set_range_uptodate(f, p, off, len) ==
    IF f[p].error THEN f
    ELSE IF f[p].private THEN iomap_iop_set_range_uptodate(f, p, off, len)
    ELSE [f EXCEPT ![p].uptodate = TRUE]

\* iomap_finish_folio_read that unlocks at every completion, not only at the
\* one that brings read_bytes_pending to zero
finish_folio_read_unlocks(f, p, off, len, error) ==
    unlock_folio(
        [(IF error THEN [f EXCEPT ![p].uptodate = FALSE, ![p].error = TRUE]
          ELSE iomap_set_range_uptodate(f, p, off, len))
         EXCEPT ![p].read_bytes_pending = @ - len], p)

iomap_finish_folio_read(f, p, off, len, error) ==
    LET f1 == IF error
              THEN [f EXCEPT ![p].uptodate = FALSE, ![p].error = TRUE]
              ELSE iomap_set_range_uptodate(f, p, off, len)
        f2 == [f1 EXCEPT ![p].read_bytes_pending = @ - len]
    IN  IF ~f1[p].private THEN unlock_folio(f1, p)
        ELSE IF f2[p].read_bytes_pending = 0 THEN unlock_folio(f2, p)
        ELSE f2

\* bio_for_each_folio_all over the segments of one bio
RECURSIVE iomap_read_end_io(_, _, _)
iomap_read_end_io(f, segs, error) ==
    IF segs = <<>> THEN f
    ELSE iomap_read_end_io(
            iomap_finish_folio_read(f, Head(segs).page, Head(segs).off,
                                    Head(segs).len, error),
            Tail(segs), error)

\* ------------------------------------------------------------ block layer
NoBio == [sector |-> 0, segs |-> <<>>, max_vecs |-> 0]

RECURSIVE SegBytes(_)
SegBytes(segs) ==
    IF segs = <<>> THEN 0 ELSE Head(segs).len + SegBytes(Tail(segs))

bio_end_sector(bio) == bio.sector + SegBytes(bio.segs) \div BlockSize

bio_full(bio) == Len(bio.segs) >= bio.max_vecs

\* __bio_try_merge_page: the range extends the last segment of the bio
bio_can_merge_page(bio, p, len, off) ==
    /\ bio.segs # <<>>
    /\ bio.segs[Len(bio.segs)].page = p
    /\ bio.segs[Len(bio.segs)].off + bio.segs[Len(bio.segs)].len = off

bio_merge_page(bio, p, len, off) ==
    [bio EXCEPT !.segs[Len(bio.segs)].len = @ + len]

bio_add_page(bio, p, len, off) ==
    IF bio_can_merge_page(bio, p, len, off)
    THEN bio_merge_page(bio, p, len, off)
    ELSE [bio EXCEPT !.segs = Append(@, [page |-> p, off |-> off, len |-> len])]

\* ------------------------------------------------------- extent resolver
\* What iomap_apply hands to an actor: the extent the resolver returns for
\* pos, cut to the requested length, or a resolver error.  shift is the
\* extent's addr - offset in blocks, so iomap_sector is pos / BlockSize +
\* shift.  An inline extent is returned only for a file that fits in the
\* first folio and whose data lives in the inode: the folio holds no dirty
\* data waiting to be written to blocks.
ExtentTypes == {"HOLE", "UNWRITTEN", "MAPPED", "INLINE"}

iomap_apply_extents(pos, length) ==
    { [type |-> t, new |-> n, shared |-> s, shift |-> sh, len |-> l] :
        t \in ExtentTypes, n \in BOOLEAN, s \in {FALSE}, sh \in ExtentShifts,
        l \in {b * BlockSize : b \in 1 .. (length \div BlockSize)} }
    \ { e \in [type : {"INLINE"}, new : BOOLEAN, shared : BOOLEAN,
               shift : ExtentShifts, len : 1 .. length] :
          pos # 0 \/ i_size > PageSize \/ e.len # Min(PageSize, length)
          \/ e.new \/ e.shift # 0 \/ folio[0].dirty }

\* the source extent of a write: it covers the whole write (the BUG_ONs of
\* iomap_write_begin); where it lies on disk does not matter to the writer
iomap_apply_srcmaps(pos, len) ==
    {e \in iomap_apply_extents(pos, round_up(len, BlockSize)) :
        e.shift = 0 /\ e.len >= Min(PageSize, round_up(len, BlockSize))}

iomap_sector(iomap, pos) == pos \div BlockSize + iomap.shift

\* ------------------------------------------------------------- read path
iomap_read_inline_data(f, p) ==
    IF f[p].uptodate THEN f
    ELSE [f EXCEPT ![p].uptodate = TRUE,
                   ![p].clobbered = @ \/ f[p].fresh # {}]

\* iomap_block_needs_zeroing without the test of i_size
block_needs_zeroing_no_eof(iomap, pos, isize) ==
    iomap.type # "MAPPED" \/ iomap.new

iomap_block_needs_zeroing(iomap, pos, isize) ==
    iomap.type # "MAPPED" \/ iomap.new \/ pos >= isize

\* iomap_readpage_actor from the merge attempt on: f has the range r counted
\* in read_bytes_pending.  sub: the bios the call submits.
\* the bio allocation of iomap_readpage_actor with no second attempt
readpage_bio_alloc_once(length, first_fails, max_pages) ==
    [attempts |-> 1,
     max_vecs |-> Min(max_pages, (length + PageSize - 1) \div PageSize)]

\* the bio allocation of iomap_readpage_actor, BIO_MAX_PAGES being
\* max_pages: bio_alloc for min(BIO_MAX_PAGES, nr_vecs) pages and, when
\* that fails, bio_alloc again for one page; the bio is used unchecked
readpage_bio_alloc(length, first_fails, max_pages) ==
    IF first_fails
    THEN [attempts |-> 2, max_vecs |-> 1]
    ELSE [attempts |-> 1,
          max_vecs |-> Min(max_pages, (length + PageSize - 1) \div PageSize)]

iomap_readpage_actor_bio(f, ctx, length, sector, fallback, r) ==
    IF ctx.bio # NoBio /\ bio_end_sector(ctx.bio) = sector
       /\ bio_can_merge_page(ctx.bio, ctx.cur_folio, r.plen, r.poff)
    THEN [f |-> f,
          ctx |-> [ctx EXCEPT !.cur_folio_in_bio = TRUE,
                              !.bio = bio_merge_page(ctx.bio, ctx.cur_folio,
                                                     r.plen, r.poff)],
          sub |-> {}]
    ELSE IF ~(ctx.bio # NoBio /\ bio_end_sector(ctx.bio) = sector)
            \/ bio_full(ctx.bio)
    THEN [f |-> f,
          ctx |-> [ctx EXCEPT
                     !.cur_folio_in_bio = TRUE,
                     !.bio = bio_add_page(
                        [sector |-> sector, segs |-> <<>>,
                         max_vecs |->
                            readpage_bio_alloc(length, fallback,
                                               BioMaxVecs).max_vecs],
                        ctx.cur_folio, r.plen, r.poff)],
          sub |-> IF ctx.bio # NoBio THEN {ctx.bio} ELSE {}]
    ELSE [f |-> f,
          ctx |-> [ctx EXCEPT !.cur_folio_in_bio = TRUE,
                              !.bio = bio_add_page(ctx.bio, ctx.cur_folio,
                                                   r.plen, r.poff)],
          sub |-> {}]

\* the read path fills the range r of folio p: a block of r that holds
\* written bytes writeback has not walked is overwritten
read_fill(f, p, r) ==
    [f EXCEPT ![p].clobbered =
        @ \/ BlocksTouching(r.poff, r.plen) \cap f[p].fresh # {}]

\* iomap_readpage_actor after iomap_adjust_read_range returned r
iomap_readpage_actor_range(f, ctx, pos, length, iomap, isize, fallback, r) ==
    IF r.plen = 0
    THEN [f |-> f, ctx |-> ctx, sub |-> {}, ret |-> r.pos - pos + r.plen]
    ELSE IF iomap_block_needs_zeroing(iomap, r.pos, isize)
    THEN [f |-> iomap_set_range_uptodate(read_fill(f, ctx.cur_folio, r),
                                         ctx.cur_folio, r.poff, r.plen),
          ctx |-> ctx, sub |-> {}, ret |-> r.pos - pos + r.plen]
    ELSE [ret |-> r.pos - pos + r.plen] @@
         iomap_readpage_actor_bio(
            IF f[ctx.cur_folio].private
            THEN [read_fill(f, ctx.cur_folio, r) EXCEPT
                    ![ctx.cur_folio].read_bytes_pending = @ + r.plen]
            ELSE read_fill(f, ctx.cur_folio, r),
            ctx, length, iomap_sector(iomap, r.pos), fallback, r)

\* One call of iomap_readpage_actor on ctx.cur_folio.  fallback: the first
\* bio_alloc failed and the bio was allocated for a single page.  The
\* result carries the bios the call submitted (sub) and the bytes it
\* advanced over (ret).
iomap_readpage_actor(f, ctx, pos, length, iomap, isize, fallback) ==
    IF iomap.type = "INLINE"
    THEN [f |-> iomap_read_inline_data(iomap_page_create(f, ctx.cur_folio),
                                       ctx.cur_folio),
          ctx |-> ctx, sub |-> {}, ret |-> PageSize]
    ELSE iomap_readpage_actor_range(
            iomap_page_create(f, ctx.cur_folio), ctx, pos, length, iomap,
            isize, fallback,
            iomap_adjust_read_range(iomap_page_create(f, ctx.cur_folio),
                                    ctx.cur_folio, pos, length, isize))

NoExt == [type |-> "NONE", new |-> FALSE, shared |-> FALSE, shift |-> 0,
          len |-> 0]

IdleReader == [op |-> "idle", cur_folio |-> NoFolio,
               cur_folio_in_bio |-> FALSE, bio |-> NoBio, pos |-> 0,
               length |-> 0, ext |-> NoExt, brk |-> FALSE,
               rac_index |-> 0, rac_end |-> 0]

\* iomap_readpage entered on a locked folio that is not uptodate
ReadpageStart(p) ==
    /\ rctx.op = "idle"
    /\ folio[p].locked = "none"
    /\ ~folio[p].uptodate
    /\ folio' = [lock_folio(folio, p, "read") EXCEPT ![p].error = FALSE]
    /\ rctx' = [IdleReader EXCEPT !.op = "readpage", !.cur_folio = p,
                                  !.pos = p * PageSize, !.length = PageSize]
    /\ UNCHANGED <<conf, markers, endio, i_size, rbios, wctx, wbvars>>

\* the loop of iomap_readpage leaving on a failure without SetFolioError
ReadpageApplyErrorQuiet ==
    /\ rctx.op = "readpage" /\ ~rctx.brk /\ rctx.length > 0
    /\ rctx' = [rctx EXCEPT !.brk = TRUE]
    /\ UNCHANGED <<conf, markers, endio, i_size, folio, rbios, wctx, wbvars>>

\* one iteration of the loop of iomap_readpage: iomap_apply fails
ReadpageApplyError ==
    /\ rctx.op = "readpage" /\ ~rctx.brk /\ rctx.length > 0
    /\ folio' = [folio EXCEPT ![rctx.cur_folio].error = TRUE]
    /\ rctx' = [rctx EXCEPT !.brk = TRUE]
    /\ UNCHANGED <<conf, markers, endio, i_size, rbios, wctx, wbvars>>

\* one iteration of the loop of iomap_readpage: iomap_apply runs the actor
ReadpageApply ==
    /\ rctx.op = "readpage" /\ ~rctx.brk /\ rctx.length > 0
    /\ \E iomap \in iomap_apply_extents(rctx.pos, rctx.length),
          fallback \in BOOLEAN :
         \E a \in {iomap_readpage_actor(folio, rctx, rctx.pos, iomap.len,
                                        iomap, i_size, fallback)} :
             /\ rbios' = rbios \cup a.sub
             /\ IF a.ret <= 0
                THEN /\ folio' = [a.f EXCEPT ![rctx.cur_folio].error = TRUE]
                     /\ rctx' = [a.ctx EXCEPT !.brk = TRUE]
                ELSE /\ folio' = a.f
                     /\ rctx' = [a.ctx EXCEPT !.pos = @ + a.ret,
                                              !.length = @ - a.ret]
    /\ UNCHANGED <<conf, markers, endio, i_size, wctx, wbvars>>

\* the end of iomap_readpage unlocking the folio although a bio holds it
ReadpageFinishUnlocks ==
    /\ rctx.op = "readpage" /\ (rctx.brk \/ rctx.length <= 0)
    /\ rbios' = IF rctx.bio # NoBio THEN rbios \cup {rctx.bio} ELSE rbios
    /\ folio' = unlock_folio(folio, rctx.cur_folio)
    /\ rctx' = IdleReader
    /\ UNCHANGED <<conf, markers, endio, i_size, wctx, wbvars>>

\* the end of iomap_readpage leaving the folio locked when no bio holds it
ReadpageFinishKeepsLock ==
    /\ rctx.op = "readpage" /\ (rctx.brk \/ rctx.length <= 0)
    /\ rbios' = IF rctx.bio # NoBio THEN rbios \cup {rctx.bio} ELSE rbios
    /\ folio' = folio
    /\ rctx' = IdleReader
    /\ UNCHANGED <<conf, markers, endio, i_size, wctx, wbvars>>

\* the end of iomap_readpage: submit the bio, or unlock the folio
ReadpageFinish ==
    /\ rctx.op = "readpage" /\ (rctx.brk \/ rctx.length <= 0)
    /\ IF rctx.bio # NoBio
       THEN /\ rbios' = rbios \cup {rctx.bio}
            /\ folio' = folio
       ELSE /\ rbios' = rbios
            /\ folio' = unlock_folio(folio, rctx.cur_folio)
    /\ rctx' = IdleReader
    /\ UNCHANGED <<conf, markers, endio, i_size, wctx, wbvars>>

\* iomap_readahead entered: the page cache hands over n locked new folios
ReadaheadStart(first, n) ==
    /\ rctx.op = "idle"
    /\ first + n <= nr_folios
    /\ \A p \in first .. first + n - 1 :
          folio[p] = NewFolio
    /\ folio' = [p \in Pages |->
                   IF p \in first .. first + n - 1
                   THEN [folio[p] EXCEPT !.locked = "read"] ELSE folio[p]]
    /\ rctx' = [IdleReader EXCEPT !.op = "readahead",
                                  !.pos = first * PageSize,
                                  !.length = n * PageSize,
                                  !.rac_index = first,
                                  !.rac_end = first + n]
    /\ UNCHANGED <<conf, markers, endio, i_size, rbios, wctx, wbvars>>

\* the loop of iomap_readahead: iomap_apply fails
ReadaheadApplyError ==
    /\ rctx.op = "readahead" /\ ~rctx.brk /\ rctx.length > 0
    /\ rctx.ext = NoExt
    /\ rctx' = [rctx EXCEPT !.brk = TRUE]
    /\ UNCHANGED <<conf, markers, endio, i_size, folio, rbios, wctx, wbvars>>

\* the loop of iomap_readahead: iomap_apply resolves the next extent
ReadaheadApply ==
    /\ rctx.op = "readahead" /\ ~rctx.brk /\ rctx.length > 0
    /\ rctx.ext = NoExt
    /\ \E iomap \in iomap_apply_extents(rctx.pos, rctx.length) :
         rctx' = [rctx EXCEPT !.ext = iomap]
    /\ UNCHANGED <<conf, markers, endio, i_size, folio, rbios, wctx, wbvars>>

\* the head of the loop of iomap_readahead_actor: the reader leaves a folio
\* it has finished and takes the next one of the batch
readahead_next_folio(c) ==
    IF c.cur_folio = NoFolio
       \/ (c.cur_folio # NoFolio /\ c.pos % PageSize = 0)
    THEN [c EXCEPT !.cur_folio = c.rac_index, !.cur_folio_in_bio = FALSE,
                   !.rac_index = @ + 1]
    ELSE c

\* one iteration of the loop of iomap_readahead_actor
iomap_readahead_actor ==
    /\ rctx.op = "readahead" /\ rctx.ext # NoExt
    /\ readahead_next_folio(rctx).cur_folio < rctx.rac_end
    /\ \E fallback \in BOOLEAN :
         \E a \in {iomap_readpage_actor(
                      IF rctx.cur_folio # NoFolio /\ rctx.pos % PageSize = 0
                         /\ ~rctx.cur_folio_in_bio
                      THEN unlock_folio(folio, rctx.cur_folio) ELSE folio,
                      readahead_next_folio(rctx), rctx.pos, rctx.ext.len,
                      rctx.ext, i_size, fallback)} :
             /\ folio' = a.f
             /\ rbios' = rbios \cup a.sub
             /\ rctx' = [a.ctx EXCEPT
                           !.pos = @ + a.ret,
                           !.length = @ - a.ret,
                           !.ext = IF rctx.ext.len - a.ret <= 0 THEN NoExt
                                   ELSE [rctx.ext EXCEPT !.len = @ - a.ret]]
    /\ UNCHANGED <<conf, markers, endio, i_size, wctx, wbvars>>

\* the end of iomap_readahead; the caller then unlocks the folios of the
\* batch that were not taken and drops them from the page cache
ReadaheadFinish ==
    /\ rctx.op = "readahead" /\ rctx.ext = NoExt
    /\ (rctx.brk \/ rctx.length <= 0)
    /\ rbios' = IF rctx.bio # NoBio THEN rbios \cup {rctx.bio} ELSE rbios
    /\ LET f1 == IF rctx.cur_folio # NoFolio /\ ~rctx.cur_folio_in_bio
                 THEN unlock_folio(folio, rctx.cur_folio) ELSE folio
       IN  folio' = [p \in Pages |->
                       IF p \in rctx.rac_index .. rctx.rac_end - 1
                       THEN NewFolio ELSE f1[p]]
    /\ rctx' = IdleReader
    /\ UNCHANGED <<conf, markers, endio, i_size, wctx, wbvars>>

\* a submitted read bio completes, with or without an error
ReadEndIoOn(p) ==
    /\ \E bio \in rbios, error \in BOOLEAN :
         /\ \E k \in 1 .. Len(bio.segs) : bio.segs[k].page = p
         /\ folio' = iomap_read_end_io(folio, bio.segs, error)
         /\ rbios' = rbios \ {bio}
    /\ UNCHANGED <<conf, markers, endio, i_size, rctx, wctx, wbvars>>

ReadEndIo == \E p \in Pages : ReadEndIoOn(p)


\* ------------------------------------------------------------ write path

\* What __iomap_write_begin returns: the folios, the status, and the spans
\* the loop filled (how: "zero" or "read") and the spans it passed over.
WriteBeginResult(f, status) ==
    [f |-> f, status |-> status, spans |-> {}, skipped |-> {}]

write_begin_filled(res, r, how) ==
    [res EXCEPT !.spans = @ \cup {[pos |-> r.pos, poff |-> r.poff,
                                   plen |-> r.plen, how |-> how]}]

\* zero_user_segments(page, poff, from, to, poff + plen) of the spans
\* filled with zeroes: the bytes of [from, to) inside them are left as they
\* were
zero_user_segments_left(res, from, to) ==
    UNION {Max(from, s.poff) .. (Min(to, s.poff + s.plen) - 1) :
             s \in {x \in res.spans : x.how = "zero"}}

write_begin_skipped(res, r) ==
    [res EXCEPT !.skipped = @ \cup {[pos |-> r.pos, poff |-> r.poff,
                                     plen |-> r.plen]}]

\* The do-while loop of __iomap_write_begin from block_start on.  nfail: the
\* nfail-th synchronous read (iomap_read_folio_sync) fails; 0: none does.
RECURSIVE iomap_write_begin_loop(_, _, _, _, _, _, _, _, _, _)
\* one pass of the loop body, r being what iomap_adjust_read_range returned
RECURSIVE iomap_write_begin_span(_, _, _, _, _, _, _, _, _, _)
iomap_write_begin_span(f, p, r, block_end, from, to, unshare, srcmap, isize, nfail) ==
    IF r.plen = 0 THEN WriteBeginResult(f, "ok")
    ELSE IF ~unshare /\ (from <= r.poff \/ from >= r.poff + r.plen)
                     /\ (to <= r.poff \/ to >= r.poff + r.plen)
    THEN write_begin_skipped(
            IF r.pos + r.plen < block_end
            THEN iomap_write_begin_loop(f, p, r.pos + r.plen, block_end,
                                        from, to, unshare, srcmap, isize,
                                        nfail)
            ELSE WriteBeginResult(f, "ok"), r)
    ELSE IF iomap_block_needs_zeroing(srcmap, r.pos, isize)
    THEN IF unshare THEN WriteBeginResult(f, "EIO")
         ELSE write_begin_filled(
                 IF r.pos + r.plen < block_end
                 THEN iomap_write_begin_loop(
                         iomap_set_range_uptodate(f, p, r.poff, r.plen), p,
                         r.pos + r.plen, block_end, from, to, unshare,
                         srcmap, isize, nfail)
                 ELSE WriteBeginResult(
                         iomap_set_range_uptodate(f, p, r.poff, r.plen),
                         "ok"), r, "zero")
    ELSE IF nfail = 1 THEN WriteBeginResult(f, "EIO")
    ELSE write_begin_filled(
            IF r.pos + r.plen < block_end
            THEN iomap_write_begin_loop(
                    iomap_set_range_uptodate(f, p, r.poff, r.plen), p,
                    r.pos + r.plen, block_end, from, to, unshare, srcmap,
                    isize, IF nfail = 0 THEN 0 ELSE nfail - 1)
            ELSE WriteBeginResult(
                    iomap_set_range_uptodate(f, p, r.poff, r.plen), "ok"),
            r, "read")

iomap_write_begin_loop(f, p, block_start, block_end, from, to, unshare, srcmap, isize, nfail) ==
    iomap_write_begin_span(
        f, p,
        iomap_adjust_read_range(f, p, block_start, block_end - block_start,
                                isize),
        block_end, from, to, unshare, srcmap, isize, nfail)

\* __iomap_write_begin up to the loop: the record, the uptodate test and
\* ClearFolioError
iomap_write_begin_prep(f, p) ==
    IF iomap_page_create(f, p)[p].uptodate
    THEN iomap_page_create(f, p)
    ELSE [iomap_page_create(f, p) EXCEPT ![p].error = FALSE]

\* the loop of __iomap_write_begin for a write of len bytes at pos
iomap_write_begin_fill(f, p, pos, len, unshare, srcmap, isize, nfail) ==
    iomap_write_begin_loop(
        f, p, round_down(pos, BlockSize), round_up(pos + len, BlockSize),
        (pos % PageSize), (pos % PageSize) + len, unshare, srcmap, isize,
        nfail)

iomap_write_begin_blocks(f, p, pos, len, unshare, srcmap, isize, nfail) ==
    IF iomap_write_begin_prep(f, p)[p].uptodate
    THEN WriteBeginResult(iomap_write_begin_prep(f, p), "ok")
    ELSE iomap_write_begin_fill(iomap_write_begin_prep(f, p), p, pos, len,
                                unshare, srcmap, isize, nfail)

\* __iomap_write_end without the short-write test
write_end_blocks_keeps_short(f, p, pos, len, copied) ==
    [f |-> [iomap_set_range_uptodate(f, p, pos % PageSize, len)
               EXCEPT ![p].dirty = TRUE],
     ret |-> copied]

\* __iomap_write_end: the bytes it reports and the folios it leaves
iomap_write_end_blocks(f, p, pos, len, copied) ==
    IF copied < len /\ ~f[p].uptodate
    THEN [f |-> f, ret |-> 0]
    ELSE [f |-> [iomap_set_range_uptodate(f, p, pos % PageSize, len)
                    EXCEPT ![p].dirty = TRUE,
                           ![p].fresh = @ \cup
                              BlocksTouching(pos % PageSize, copied)],
          ret |-> copied]

\* op: "copy" between write_begin and write_end, "failed" after a failed
\* write_begin and "short" after a write_end that reported ret < len, both
\* before iomap_write_failed runs, "done" after a write_end that reported
\* len, before the actor goes on.  size_changed: IOMAP_F_SIZE_CHANGED in the
\* flags of the extent the actor was given.  did_zero: *did_zero of the
\* iomap_zero_range call under way.  uninit is not kernel state: the bytes
\* of the folio, inside the spans iomap_write_begin zero-filled around the
\* write, that neither the zero-fill nor the copy has written.
IdleWriter == [op |-> "idle", kind |-> "none", folio |-> NoFolio, pos |-> 0,
               len |-> 0, inline |-> FALSE, ret |-> 0, size_changed |-> FALSE,
               did_zero |-> FALSE, uninit |-> {}]

WriteKinds == {"write", "zero", "unshare"}

\* the source extents a write of this kind may be given: unshare and zero
\* pass over holes and unwritten extents without a write_begin
WriteSrcmaps(kind, pos, len) ==
    {e \in iomap_apply_srcmaps(pos, len) :
        /\ e.type = "INLINE" => pos + len <= PageSize
        /\ kind \in {"unshare", "zero"} => e.type \notin {"HOLE", "UNWRITTEN"}}

\* iomap_write_begin on the folio holding pos, for len bytes inside it, up
\* to the loop of __iomap_write_begin, with no fatal signal pending.  The
\* other returns before the folio is held (a page_prepare error, -ENOMEM)
\* change nothing and are not steps.
\* The folio flags can be written by an I/O completion while the loop runs,
\* so the loop is a step of its own (op "begin").
iomap_write_begin(kind, pos, len) ==
    /\ wctx.op = "idle"
    /\ folio[pos \div PageSize].locked = "none"
    /\ \E inline \in {e.type = "INLINE" : e \in WriteSrcmaps(kind, pos, len)} :
         \E f \in {IF inline
                   THEN iomap_read_inline_data(
                           lock_folio(folio, pos \div PageSize, "write"),
                           pos \div PageSize)
                   ELSE iomap_write_begin_prep(
                           lock_folio(folio, pos \div PageSize, "write"),
                           pos \div PageSize)} :
            /\ folio' = f
            /\ wctx' = [op |-> IF inline \/ f[pos \div PageSize].uptodate
                               THEN "copy" ELSE "begin",
                        kind |-> kind, folio |-> pos \div PageSize,
                        pos |-> pos, len |-> len, inline |-> inline,
                        ret |-> 0, size_changed |-> FALSE,
                        did_zero |-> wctx.did_zero, uninit |-> {}]
    /\ UNCHANGED <<conf, markers, endio, i_size, rctx, rbios, wbvars>>

\* the signal test made after the folio lookup and the tracker allocation
write_begin_eintr_late ==
    /\ wctx.op = "idle"
    /\ \E p \in Pages :
         /\ folio[p].locked = "none"
         /\ folio' = unlock_folio(
                        iomap_write_begin_prep(lock_folio(folio, p, "write"), p),
                        p)
    /\ wctx' = [IdleWriter EXCEPT !.op = "eintr"]
    /\ UNCHANGED <<conf, markers, endio, i_size, rctx, rbios, wbvars>>

\* iomap_write_begin entered with a fatal signal pending: -EINTR before
\* page_prepare and the folio lookup, whatever pos and len are and whoever
\* holds the folio
iomap_write_begin_eintr ==
    /\ wctx.op = "idle"
    /\ wctx' = [IdleWriter EXCEPT !.op = "eintr"]
    /\ UNCHANGED <<conf, markers, endio, i_size, folio, rctx, rbios, wbvars>>

\* iomap_write_begin returning an error of the loop with the folio locked
write_begin_return_locked ==
    /\ wctx.op = "begin"
    /\ \E srcmap \in WriteSrcmaps(wctx.kind, wctx.pos, wctx.len),
          nfail \in 0 .. 2 :
         /\ srcmap.type # "INLINE"
         /\ \E b \in {iomap_write_begin_fill(
                         folio, wctx.folio, wctx.pos, wctx.len,
                         wctx.kind = "unshare", srcmap, i_size, nfail)} :
              /\ folio' = b.f
              /\ wctx' = [wctx EXCEPT
                            !.op = IF b.status = "ok" THEN "copy"
                                   ELSE "failed",
                            !.uninit = zero_user_segments_left(
                               b, wctx.pos % PageSize,
                               (wctx.pos % PageSize) + wctx.len)]
    /\ UNCHANGED <<conf, markers, endio, i_size, rctx, rbios, wbvars>>

\* the loop of __iomap_write_begin and the return of iomap_write_begin
iomap_write_begin_return ==
    /\ wctx.op = "begin"
    /\ \E srcmap \in WriteSrcmaps(wctx.kind, wctx.pos, wctx.len),
          nfail \in 0 .. 2 :
         /\ srcmap.type # "INLINE"
         /\ \E b \in {iomap_write_begin_fill(
                         folio, wctx.folio, wctx.pos, wctx.len,
                         wctx.kind = "unshare", srcmap, i_size, nfail)} :
              IF b.status = "ok"
              THEN /\ folio' = b.f
                   /\ wctx' = [wctx EXCEPT
                                 !.op = "copy",
                                 !.uninit = zero_user_segments_left(
                                    b, wctx.pos % PageSize,
                                    (wctx.pos % PageSize) + wctx.len)]
              ELSE /\ folio' = unlock_folio(b.f, wctx.folio)
                   /\ wctx' = [wctx EXCEPT !.op = "failed"]
    /\ UNCHANGED <<conf, markers, endio, i_size, rctx, rbios, wbvars>>

\* iomap_write_end that moves the size to pos + ret whatever the old size
write_end_size_always(isize, pos, ret) ==
    [i_size |-> pos + ret, size_changed |-> pos + ret > isize]

\* iomap_write_end: i_size_write and IOMAP_F_SIZE_CHANGED after ret bytes
\* were accepted at pos
iomap_write_end_size(isize, pos, ret) ==
    IF pos + ret > isize
    THEN [i_size |-> pos + ret, size_changed |-> TRUE]
    ELSE [i_size |-> isize, size_changed |-> FALSE]

\* iomap_write_end after copied bytes were copied into the folio
iomap_write_end(copied) ==
    /\ wctx.op = "copy"
    /\ wctx.kind # "write" => copied = wctx.len
    /\ \E e \in {IF wctx.inline THEN [f |-> folio, ret |-> copied]
                 ELSE iomap_write_end_blocks(folio, wctx.folio, wctx.pos,
                                             wctx.len, copied)} :
         /\ i_size' = iomap_write_end_size(i_size, wctx.pos, e.ret).i_size
         /\ folio' = unlock_folio(e.f, wctx.folio)
         /\ wctx' = [wctx EXCEPT
                       !.op = IF e.ret < wctx.len THEN "short" ELSE "done",
                       !.ret = e.ret,
                       !.did_zero = @ \/ wctx.kind = "zero",
                       !.uninit = @ \ ((wctx.pos % PageSize) ..
                                       ((wctx.pos % PageSize) + copied - 1)),
                       !.size_changed =
                          @ \/ iomap_write_end_size(i_size, wctx.pos,
                                                    e.ret).size_changed]
    /\ UNCHANGED <<conf, markers, endio, rctx, rbios, wbvars>>

\* the write actor after a write_end that accepted the whole length, or
\* after iomap_write_begin returned -EINTR (the break at its call): it
\* returns, and the extent is given back to the resolver
iomap_write_actor_done ==
    /\ wctx.op \in {"done", "eintr"}
    /\ wctx' = [IdleWriter EXCEPT !.did_zero = wctx.did_zero]
    /\ UNCHANGED <<conf, markers, endio, i_size, folio, rctx, rbios, wbvars>>

\* iomap_invalidatepage of a whole folio, then its removal from the cache
iomap_page_release(f, p) ==
    [f EXCEPT ![p].private = FALSE,
              ![p].uptodate_bits = {},
              ![p].read_bytes_pending = 0,
              ![p].write_bytes_pending = 0,
              ![p].bad = @ \cup
                 (IF f[p].private /\ f[p].read_bytes_pending # 0
                  THEN {"release_read_pending"} ELSE {}) \cup
                 (IF f[p].private /\ f[p].write_bytes_pending # 0
                  THEN {"release_write_pending"} ELSE {}) \cup
                 (IF f[p].private
                     /\ (f[p].uptodate_bits = Blocks) # f[p].uptodate
                  THEN {"release_uptodate_mismatch"} ELSE {})]

iomap_invalidatepage(f, p) ==
    iomap_page_release([f EXCEPT ![p].dirty = FALSE], p)

\* iomap_releasepage without the test of the dirty and writeback flags
releasepage_unconditional(p) ==
    /\ folio[p].locked = "none" /\ folio[p].private
    /\ folio' = iomap_page_release(folio, p)
    /\ UNCHANGED <<conf, markers, endio, i_size, rctx, rbios, wctx, wbvars>>

\* what iomap_releasepage returns and makes of the folios
iomap_releasepage_ret(f, p) ==
    IF f[p].dirty \/ f[p].writeback
    THEN [f |-> f, ret |-> 0]
    ELSE [f |-> iomap_page_release(f, p), ret |-> 1]

\* iomap_releasepage on a locked folio with a record: refused (no step) for
\* a dirty folio or one under writeback
iomap_releasepage(p) ==
    /\ folio[p].locked = "none" /\ folio[p].private
    /\ ~folio[p].dirty /\ ~folio[p].writeback
    /\ folio' = iomap_page_release(folio, p)
    /\ UNCHANGED <<conf, markers, endio, i_size, rctx, rbios, wctx, wbvars>>

\* iomap_write_failed: truncate_pagecache_range(max(pos, i_size), pos + len)
\* removes the folio when the range covers it, after waiting for its lock
\* and its writeback.
iomap_write_failed ==
    /\ wctx.op \in {"failed", "short"}
    /\ LET p == wctx.folio
           start == Max(wctx.pos, i_size)
           whole == /\ wctx.pos + wctx.len > i_size
                    /\ start <= p * PageSize
                    /\ wctx.pos + wctx.len >= (p + 1) * PageSize
       IN  IF whole
           THEN /\ folio[p].locked = "none" /\ ~folio[p].writeback
                /\ folio' = [folio EXCEPT ![p] =
                      [NewFolio EXCEPT !.bad =
                          iomap_invalidatepage(folio, p)[p].bad]]
           ELSE folio' = folio
    /\ wctx' = [IdleWriter EXCEPT !.did_zero = wctx.did_zero]
    /\ UNCHANGED <<conf, markers, endio, i_size, rctx, rbios, wbvars>>


\* ------------------------------------------------------------- writeback
end_folio_writeback(f, p) ==
    IF ~f[p].writeback
    THEN [f EXCEPT ![p].bad = @ \cup {"end_writeback_not_writeback"}]
    ELSE [f EXCEPT ![p].writeback = FALSE]

\* iomap_finish_folio_write that ends writeback at every completion
finish_folio_write_ends(f, p, len, error) ==
    end_folio_writeback(
        [f EXCEPT ![p].error = IF error THEN TRUE ELSE @,
                  ![p].write_bytes_pending =
                     IF f[p].private THEN @ - len ELSE @], p)

\* iomap_finish_folio_write that leaves the error flag alone
finish_folio_write_quiet(f, p, len, error) ==
    LET f2 == [f EXCEPT ![p].write_bytes_pending = @ - len]
    IN  IF ~f[p].private THEN end_folio_writeback(f, p)
        ELSE IF f2[p].write_bytes_pending = 0 THEN end_folio_writeback(f2, p)
        ELSE f2

iomap_finish_folio_write(f, p, len, error) ==
    LET f1 == [f EXCEPT
                 ![p].error = IF error THEN TRUE ELSE @,
                 ![p].bad = @ \cup
                    (IF blocks_per_folio > 1 /\ ~f[p].private
                     THEN {"finish_write_no_iop"} ELSE {}) \cup
                    (IF f[p].private /\ f[p].write_bytes_pending <= 0
                     THEN {"finish_write_not_pending"} ELSE {})]
        f2 == [f1 EXCEPT ![p].write_bytes_pending = @ - len]
    IN  IF ~f[p].private THEN end_folio_writeback(f1, p)
        ELSE IF f2[p].write_bytes_pending = 0 THEN end_folio_writeback(f2, p)
        ELSE f2

RECURSIVE FinishSegs(_, _, _)
FinishSegs(f, segs, error) ==
    IF segs = <<>> THEN f
    ELSE FinishSegs(iomap_finish_folio_write(f, Head(segs).page,
                                             Head(segs).len, error),
                    Tail(segs), error)

\* iomap_finish_ioend walks the chained bios from io_inline_bio to io_bio
iomap_finish_ioend(f, ioend, error) ==
    FinishSegs(f, ioend.chain_segs \o ioend.bio.segs, error)

NoIoend == [io_type |-> "NONE", io_shared |-> FALSE, io_offset |-> 0,
            io_size |-> 0, chain_segs |-> <<>>, bio |-> NoBio,
            inflight |-> 0, err |-> FALSE, final |-> "open",
            io_list |-> <<>>]

\* the bio allocation of iomap_alloc_ioend and of iomap_chain_bio,
\* BIO_MAX_PAGES being max_pages: one allocation with GFP_NOFS, which
\* has no failure branch; the bio is used unchecked
ioend_bio_alloc(max_pages) == [attempts |-> 1, max_vecs |-> max_pages]

iomap_alloc_ioend(iomap, offset, sector) ==
    [io_type |-> iomap.type, io_shared |-> iomap.shared,
     io_offset |-> offset, io_size |-> 0, chain_segs |-> <<>>,
     bio |-> [sector |-> sector, segs |-> <<>>,
              max_vecs |-> ioend_bio_alloc(BioMaxVecs).max_vecs],
     inflight |-> 0, err |-> FALSE, final |-> "open", io_list |-> <<>>]

\* iomap_chain_bio that does not link the submitted bio to the new one
chain_bio_unlinked(ioend) ==
    [ioend EXCEPT !.inflight = @ + 1,
                  !.bio = [sector |-> bio_end_sector(ioend.bio),
                           segs |-> <<>>, max_vecs |-> BioMaxVecs]]

\* iomap_chain_bio: the full bio is submitted, a new one continues after it
iomap_chain_bio(ioend) ==
    [ioend EXCEPT !.chain_segs = @ \o ioend.bio.segs,
                  !.inflight = @ + 1,
                  !.bio = [sector |-> bio_end_sector(ioend.bio),
                           segs |-> <<>>,
                           max_vecs |-> ioend_bio_alloc(BioMaxVecs).max_vecs]]

\* iomap_can_add_to_ioend without the test of the sector
can_add_to_ioend_any_sector(ioend, iomap, offset, sector) ==
    /\ iomap.shared = ioend.io_shared
    /\ iomap.type = ioend.io_type
    /\ offset = ioend.io_offset + ioend.io_size

iomap_can_add_to_ioend(ioend, iomap, offset, sector) ==
    /\ iomap.shared = ioend.io_shared
    /\ iomap.type = ioend.io_type
    /\ offset = ioend.io_offset + ioend.io_size
    /\ sector = bio_end_sector(ioend.bio)

\* the tail of iomap_add_to_ioend with io_size counting bio segments
add_to_ioend_bio_counts_segs(io, p, poff) ==
    [(IF ~bio_can_merge_page(io.bio, p, BlockSize, poff) /\ bio_full(io.bio)
      THEN iomap_chain_bio(io) ELSE io)
     EXCEPT !.bio = bio_add_page(@, p, BlockSize, poff),
            !.io_size = IF bio_can_merge_page(io.bio, p, BlockSize, poff)
                        THEN @ ELSE @ + BlockSize]

\* the tail of iomap_add_to_ioend: the block is merged into or added to the
\* bio of the ioend io, after chaining a new bio when that one is full
iomap_add_to_ioend_bio(io, p, poff) ==
    [(IF ~bio_can_merge_page(io.bio, p, BlockSize, poff) /\ bio_full(io.bio)
      THEN iomap_chain_bio(io) ELSE io)
     EXCEPT !.bio = bio_add_page(@, p, BlockSize, poff),
            !.io_size = @ + BlockSize]

\* iomap_add_to_ioend that does not count the block in write_bytes_pending
add_to_ioend_uncounted(w, p, offset, iomap) ==
    IF w.ioend = NoIoend
       \/ ~iomap_can_add_to_ioend(w.ioend, iomap, offset,
                                  iomap_sector(iomap, offset))
    THEN [w EXCEPT
            !.list = IF w.ioend # NoIoend THEN <<w.ioend>> \o @ ELSE @,
            !.ioend = iomap_add_to_ioend_bio(
                         iomap_alloc_ioend(iomap, offset,
                                           iomap_sector(iomap, offset)),
                         p, offset % PageSize),
            !.count = @ + 1]
    ELSE [w EXCEPT
            !.ioend = iomap_add_to_ioend_bio(@, p, offset % PageSize),
            !.count = @ + 1]

\* iomap_add_to_ioend and the count++ after it, on the state
\* w = [f, ioend, list, count, error] of iomap_writepage_map
iomap_add_to_ioend(w, p, offset, iomap) ==
    IF w.ioend = NoIoend
       \/ ~iomap_can_add_to_ioend(w.ioend, iomap, offset,
                                  iomap_sector(iomap, offset))
    THEN [w EXCEPT
            !.f[p].write_bytes_pending =
               IF w.f[p].private THEN @ + BlockSize ELSE @,
            !.list = IF w.ioend # NoIoend THEN <<w.ioend>> \o @ ELSE @,
            !.ioend = iomap_add_to_ioend_bio(
                         iomap_alloc_ioend(iomap, offset,
                                           iomap_sector(iomap, offset)),
                         p, offset % PageSize),
            !.count = @ + 1]
    ELSE [w EXCEPT
            !.f[p].write_bytes_pending =
               IF w.f[p].private THEN @ + BlockSize ELSE @,
            !.ioend = iomap_add_to_ioend_bio(@, p, offset % PageSize),
            !.count = @ + 1]

\* what map_blocks may answer for one block
MapOutcomes ==
    {[type |-> "ERROR", shared |-> FALSE, shift |-> 0],
     [type |-> "HOLE", shared |-> FALSE, shift |-> 0],
     [type |-> "UNWRITTEN", shared |-> FALSE, shift |-> 0],
     [type |-> "MAPPED", shared |-> TRUE, shift |-> 0]}
    \cup {[type |-> "MAPPED", shared |-> FALSE, shift |-> sh] :
             sh \in ExtentShifts}

\* the block loop of iomap_writepage_map without the test of the bitmap
RECURSIVE writepage_map_loop_all_blocks(_, _, _, _, _)
writepage_map_loop_all_blocks(w, p, i, end_offset, maps) ==
    LET file_offset == p * PageSize + i * BlockSize
    IN  IF ~(i < blocks_per_folio /\ file_offset < end_offset) THEN w
        ELSE IF maps[i].type = "ERROR" THEN [w EXCEPT !.error = TRUE]
        ELSE IF maps[i].type = "HOLE"
        THEN writepage_map_loop_all_blocks(w, p, i + 1, end_offset, maps)
        ELSE writepage_map_loop_all_blocks(
                iomap_add_to_ioend(w, p, file_offset, maps[i]),
                p, i + 1, end_offset, maps)

\* the block loop of iomap_writepage_map from block i on; maps[i] is what
\* map_blocks answers for block i
RECURSIVE iomap_writepage_map_loop(_, _, _, _, _)
iomap_writepage_map_loop(w, p, i, end_offset, maps) ==
    LET file_offset == p * PageSize + i * BlockSize
    IN  IF ~(i < blocks_per_folio /\ file_offset < end_offset) THEN w
        ELSE IF w.f[p].private /\ i \notin w.f[p].uptodate_bits
        THEN iomap_writepage_map_loop(w, p, i + 1, end_offset, maps)
        ELSE IF maps[i].type = "ERROR" THEN [w EXCEPT !.error = TRUE]
        ELSE IF maps[i].type = "HOLE"
        THEN iomap_writepage_map_loop(w, p, i + 1, end_offset, maps)
        ELSE iomap_writepage_map_loop(
                iomap_add_to_ioend(w, p, file_offset, maps[i]),
                p, i + 1, end_offset, maps)

\* iomap_submit_ioend that drops a failed ioend instead of completing it
submit_ioend_drops(s, ioend, prepare_fails) ==
    IF s.error \/ prepare_fails
    THEN [f |-> s.f, wios |-> s.wios, error |-> TRUE]
    ELSE [f |-> s.f,
          wios |-> s.wios \cup {[ioend EXCEPT !.final = "inflight"]},
          error |-> FALSE]

\* iomap_submit_ioend on state s = [f, wios, error]: the ioend is failed
\* when error is set or prepare_ioend fails, else its last bio is submitted.
\* A failed ioend is finished at once unless chained bios are in flight.
iomap_submit_ioend(s, ioend, prepare_fails) ==
    LET error == s.error \/ prepare_fails
    IN  IF error
        THEN IF ioend.inflight = 0
             THEN [f |-> iomap_finish_ioend(s.f, ioend, TRUE),
                   wios |-> s.wios, error |-> TRUE]
             ELSE [f |-> s.f,
                   wios |-> s.wios \cup
                      {[ioend EXCEPT !.err = TRUE, !.final = "done"]},
                   error |-> TRUE]
        ELSE [f |-> s.f,
              wios |-> s.wios \cup {[ioend EXCEPT !.final = "inflight"]},
              error |-> FALSE]

\* the submit loop of iomap_writepage_map; prepare_ioend fails for the
\* fail_at-th ioend of the list (0: for none)
RECURSIVE SubmitList(_, _, _, _)
SubmitList(s, list, k, fail_at) ==
    IF list = <<>> THEN s
    ELSE SubmitList(iomap_submit_ioend(s, Head(list), k = fail_at),
                    Tail(list), k + 1, fail_at)

\* the end of iomap_writepage_map without the test of count
writepage_map_done_no_end(s, p, count) == s

\* the end of iomap_writepage_map, s being what the submit loop left
iomap_writepage_map_done(s, p, count) ==
    [s EXCEPT !.f = IF count = 0 THEN end_folio_writeback(@, p) ELSE @]

\* iomap_writepage_map after its block loop left the state w
iomap_writepage_map_submit(w, p, fail_at) ==
    IF w.error /\ w.count = 0
    THEN [f |-> unlock_folio([w.f EXCEPT ![p].uptodate = FALSE], p),
          ioend |-> w.ioend, wios |-> wios, error |-> TRUE]
    ELSE [ioend |-> w.ioend] @@
         iomap_writepage_map_done(
            SubmitList(
               [f |-> unlock_folio([w.f EXCEPT ![p].writeback = TRUE], p),
                wios |-> wios, error |-> w.error], w.list, 1, fail_at),
            p, w.count)

iomap_writepage_map(f, ioend, p, end_offset, maps, fail_at) ==
    iomap_writepage_map_submit(
        iomap_writepage_map_loop(
            [f |-> [f EXCEPT ![p].bad = @ \cup
                      (IF blocks_per_folio > 1 /\ ~f[p].private
                       THEN {"writepage_map_no_iop"} ELSE {}) \cup
                      (IF f[p].private /\ f[p].write_bytes_pending # 0
                       THEN {"writepage_map_write_pending"} ELSE {})],
             ioend |-> ioend, list |-> <<>>, count |-> 0, error |-> FALSE],
            p, 0, end_offset, maps),
        p, fail_at)

IdleWpc == [op |-> "idle", ioend |-> NoIoend, next |-> 0, ret |-> FALSE]

\* the folio as write_cache_pages hands it to iomap_do_writepage: locked and
\* with its dirty flag cleared
writepage_folio(f, p) ==
    [lock_folio(f, p, "writeback") EXCEPT
        ![p].dirty = FALSE,
        ![p].fresh = @ \ ValidBlocks(f[p])]

\* write_cache_pages hands the next dirty folio to iomap_do_writepage
iomap_do_writepage(p) ==
    /\ p >= wpc.next
    /\ folio[p].dirty /\ folio[p].locked = "none" /\ ~folio[p].writeback
    /\ IF p > i_size \div PageSize
          \/ (p = i_size \div PageSize /\ i_size % PageSize = 0)
       THEN /\ folio' = folio
            /\ wpc' = [wpc EXCEPT !.op = "pass", !.next = p + 1]
            /\ UNCHANGED <<wios, wb_err>>
       ELSE \E maps \in [Blocks -> MapOutcomes], fail_at \in 0 .. 2 :
              \E m \in {iomap_writepage_map(
                           writepage_folio(folio, p), wpc.ioend, p,
                           IF p < i_size \div PageSize
                           THEN (p + 1) * PageSize ELSE i_size,
                           maps, fail_at)} :
                  /\ folio' = m.f
                  /\ wios' = m.wios
                  /\ wb_err' = (wb_err \/ m.error)
                  /\ wpc' = [op |-> "pass", ioend |-> m.ioend,
                             next |-> p + 1, ret |-> wpc.ret \/ m.error]
    /\ UNCHANGED <<conf, markers, endio, i_size, rctx, rbios, wctx>>

\* the end of iomap_writepages / iomap_writepage: the cached ioend is
\* submitted, or failed with the error of the pass
iomap_writepages_end ==
    /\ wpc.op = "pass"
    /\ IF wpc.ioend = NoIoend
       THEN UNCHANGED <<folio, wios, wb_err>>
       ELSE \E prepare_fails \in BOOLEAN :
              \E s \in {iomap_submit_ioend(
                           [f |-> folio, wios |-> wios, error |-> wpc.ret],
                           wpc.ioend, prepare_fails)} :
                  /\ folio' = s.f
                  /\ wios' = s.wios
                  /\ wb_err' = (wb_err \/ (s.error /\ wpc.ioend.inflight = 0))
    /\ wpc' = IdleWpc
    /\ UNCHANGED <<conf, markers, endio, i_size, rctx, rbios, wctx>>

\* a chained bio of an ioend completes
bio_chain_endio ==
    /\ \E io \in wios \cup {wpc.ioend}, error \in BOOLEAN :
         LET io1 == [io EXCEPT !.inflight = @ - 1, !.err = @ \/ error]
         IN  /\ io.inflight > 0
             /\ IF io = wpc.ioend /\ io \notin wios
                THEN /\ wpc' = [wpc EXCEPT !.ioend = io1]
                     /\ UNCHANGED <<folio, wios, wb_err>>
                ELSE /\ wpc' = wpc
                     /\ IF io1.inflight = 0 /\ io1.final = "done"
                        THEN /\ folio' = iomap_finish_ioend(folio, io1,
                                                            io1.err)
                             /\ wios' = wios \ {io}
                             /\ wb_err' = (wb_err \/ io1.err)
                        ELSE /\ folio' = folio
                             /\ wios' = (wios \ {io}) \cup {io1}
                             /\ wb_err' = wb_err
    /\ UNCHANGED <<conf, markers, endio, i_size, rctx, rbios, wctx>>

\* iomap_writepage_end_bio: the last bio of a submitted ioend completes
iomap_writepage_end_bio ==
    /\ \E io \in wios, error \in BOOLEAN :
         LET io1 == [io EXCEPT !.final = "done", !.err = @ \/ error]
         IN  /\ io.final = "inflight"
             /\ IF io1.inflight = 0
                THEN /\ folio' = iomap_finish_ioend(folio, io1, io1.err)
                     /\ wios' = wios \ {io}
                     /\ wb_err' = (wb_err \/ io1.err)
                ELSE /\ folio' = folio
                     /\ wios' = (wios \ {io}) \cup {io1}
                     /\ wb_err' = wb_err
    /\ UNCHANGED <<conf, markers, endio, i_size, rctx, rbios, wctx, wpc>>

\* ---------------------------------------------------- deferred completion
\* A filesystem may take the completion of an ioend's last bio itself and
\* queue the ioend, to sort, merge and finish the queued ioends later.

\* iomap_ioend_can_merge without the test of the offsets
ioend_can_merge_gap(ioend, next) ==
    /\ ioend.err = next.err
    /\ ioend.io_shared = next.io_shared
    /\ (ioend.io_type = "UNWRITTEN") = (next.io_type = "UNWRITTEN")

\* err is bi_status of io_bio
iomap_ioend_can_merge(ioend, next) ==
    /\ ioend.err = next.err
    /\ ioend.io_shared = next.io_shared
    /\ (ioend.io_type = "UNWRITTEN") = (next.io_type = "UNWRITTEN")
    /\ ioend.io_offset + ioend.io_size = next.io_offset

\* the loop of iomap_ioend_try_merge looking past an ioend it cannot merge
RECURSIVE ioend_try_merge_skips(_, _)
ioend_try_merge_skips(ioend, more_ioends) ==
    IF more_ioends = <<>> THEN [ioend |-> ioend, more_ioends |-> <<>>]
    ELSE IF ~iomap_ioend_can_merge(ioend, Head(more_ioends))
    THEN [ioend_try_merge_skips(ioend, Tail(more_ioends))
             EXCEPT !.more_ioends = <<Head(more_ioends)>> \o @]
    ELSE ioend_try_merge_skips(
            [ioend EXCEPT !.io_list = Append(@, Head(more_ioends)),
                          !.io_size = @ + Head(more_ioends).io_size],
            Tail(more_ioends))

\* the loop of iomap_ioend_try_merge: [ioend, more_ioends] when it ends
RECURSIVE ioend_try_merge_loop(_, _)
ioend_try_merge_loop(ioend, more_ioends) ==
    IF more_ioends = <<>> THEN [ioend |-> ioend, more_ioends |-> <<>>]
    ELSE IF ~iomap_ioend_can_merge(ioend, Head(more_ioends))
    THEN [ioend |-> ioend, more_ioends |-> more_ioends]
    ELSE ioend_try_merge_loop(
            [ioend EXCEPT !.io_list = Append(@, Head(more_ioends)),
                          !.io_size = @ + Head(more_ioends).io_size],
            Tail(more_ioends))

\* iomap_ioend_compare on the sizes of the ioends
ioend_compare_size(ia, ib) ==
    IF ia.io_size < ib.io_size THEN -1
    ELSE IF ia.io_size > ib.io_size THEN 1
    ELSE 0

iomap_ioend_compare(ia, ib) ==
    IF ia.io_offset < ib.io_offset THEN -1
    ELSE IF ia.io_offset > ib.io_offset THEN 1
    ELSE 0

\* list_sort is a stable sort: an element goes behind those that do not
\* compare greater
RECURSIVE list_sort_insert(_, _)
list_sort_insert(sorted, e) ==
    IF sorted = <<>> THEN <<e>>
    ELSE IF iomap_ioend_compare(Head(sorted), e) <= 0
    THEN <<Head(sorted)>> \o list_sort_insert(Tail(sorted), e)
    ELSE <<e>> \o sorted

RECURSIVE list_sort(_)
list_sort(list) ==
    IF list = <<>> THEN <<>>
    ELSE list_sort_insert(list_sort(SubSeq(list, 1, Len(list) - 1)),
                          list[Len(list)])

\* iomap_finish_ioends finishing only the ioend it is given
finish_ioends_head_only(f, ioend, error) ==
    iomap_finish_ioend(f, ioend, error)

RECURSIVE FinishIoendList(_, _, _)
FinishIoendList(f, list, error) ==
    IF list = <<>> THEN f
    ELSE FinishIoendList(iomap_finish_ioend(f, Head(list), error),
                         Tail(list), error)

\* iomap_finish_ioends: the ioend, then the ioends merged into it
iomap_finish_ioends(f, ioend, error) ==
    FinishIoendList(iomap_finish_ioend(f, ioend, error), ioend.io_list, error)

\* the bi_end_io of a filesystem that defers completion: the ioend whose
\* bios have all completed is queued
ioend_end_bio_deferred ==
    /\ \E io \in wios, error \in BOOLEAN :
         /\ io.final = "inflight" /\ io.inflight = 0
         /\ wios' = wios \ {io}
         /\ ioend_list' = Append(ioend_list,
                                 [io EXCEPT !.final = "done",
                                            !.err = @ \/ error])
    /\ ioends_sorted' = FALSE
    /\ UNCHANGED <<conf, markers, i_size, folio, rctx, rbios, wctx, wpc, wb_err,
                   ioend_merged, ioends_finished>>

iomap_sort_ioends ==
    /\ ioend_list # <<>>
    /\ ioend_list' = list_sort(ioend_list)
    /\ ioends_sorted' = TRUE
    /\ UNCHANGED <<conf, markers, i_size, folio, rctx, rbios, wctx, wbvars,
                   ioend_merged, ioends_finished>>

\* the first queued ioend is taken off the list and iomap_ioend_try_merge
\* merges what follows it
iomap_ioend_try_merge ==
    /\ ioend_merged = NoIoend
    /\ ioend_list # <<>>
    /\ \E m \in {ioend_try_merge_loop(Head(ioend_list), Tail(ioend_list))} :
         /\ ioend_merged' = m.ioend
         /\ ioend_list' = m.more_ioends
    /\ UNCHANGED <<conf, markers, i_size, folio, rctx, rbios, wctx, wbvars,
                   ioends_sorted, ioends_finished>>

\* iomap_finish_ioends of the merged ioend with its bi_status
iomap_finish_merged ==
    /\ ioend_merged # NoIoend
    /\ folio' = iomap_finish_ioends(folio, ioend_merged, ioend_merged.err)
    /\ wb_err' = (wb_err \/ ioend_merged.err)
    /\ ioend_merged' = NoIoend
    /\ ioends_finished' = 1 + Len(ioend_merged.io_list)
    /\ UNCHANGED <<conf, markers, i_size, rctx, rbios, wctx, wpc, wios, ioend_list,
                   ioends_sorted>>

\* ------------------------------------------------------------------ spec
\* a folio at rest in the page cache: unlocked, no I/O pending, its flag
\* agreeing with its bitmap
CachedFolios ==
    {[NewFolio EXCEPT !.private = pr, !.uptodate_bits = b, !.uptodate = u,
                      !.dirty = d] :
        pr \in BOOLEAN, b \in SUBSET Blocks, u \in BOOLEAN, d \in BOOLEAN}

IsCached(fo) ==
    /\ fo.private => blocks_per_folio > 1 /\ (fo.uptodate <=> fo.uptodate_bits = Blocks)
    /\ ~fo.private => fo.uptodate_bits = {}
    /\ fo.dirty => IF blocks_per_folio > 1
                   THEN fo.private /\ fo.uptodate_bits # {}
                   ELSE fo.uptodate

\* the callers of iomap_set_range_uptodate followed step by step
Markers == 1 .. MaxMarkers

\* no caller inside iomap_set_range_uptodate, every uptodate_lock free
NoMarkers ==
    [lock |-> [p \in 0 .. MaxFolios - 1 |-> 0],
     th |-> [t \in Markers |->
               [pc |-> "idle", p |-> 0, off |-> 0, len |-> 0, word |-> {}]]]

InitIdle ==
    /\ \E c \in Configs : nr_folios = c[1] /\ blocks_per_folio = c[2]
    /\ i_size \in 0 .. nr_folios * PageSize
    /\ rctx = IdleReader
    /\ rbios = {}
    /\ wctx = IdleWriter
    /\ wpc = IdleWpc
    /\ wios = {}
    /\ wb_err = FALSE
    /\ ioend_list = <<>>
    /\ ioend_merged = NoIoend
    /\ ioends_sorted = FALSE
    /\ ioends_finished = 0
    /\ markers = NoMarkers

\* an empty page cache
Init0 ==
    /\ InitIdle
    /\ folio = [p \in Pages |-> NewFolio]

\* an empty page cache of one folio, over an empty file or a file that
\* fills the folio
Init ==
    /\ InitIdle
    /\ nr_folios = 1 /\ blocks_per_folio <= 2
    /\ i_size \in {0, PageSize}
    /\ folio = [p \in Pages |-> NewFolio]

\* a page cache at rest
InitCached ==
    /\ InitIdle
    /\ folio \in [Pages -> {fo \in CachedFolios : IsCached(fo)}]

\* A run ends where an assertion of the code has fired or written bytes
\* were overwritten by a read: nothing is claimed about what follows.
Running == \A p \in Pages : folio[p].bad = {} /\ ~folio[p].clobbered

NextReadpage ==
    \/ Running /\ \E p \in Pages : ReadpageStart(p)
    \/ Running /\ ReadpageApplyError
    \/ Running /\ ReadpageApply
    \/ Running /\ ReadpageFinish
    \/ Running /\ ReadEndIo

NextReadahead ==
    \/ Running /\ \E first \in Pages, n \in 1 .. nr_folios :
                     ReadaheadStart(first, n)
    \/ Running /\ ReadaheadApplyError
    \/ Running /\ ReadaheadApply
    \/ Running /\ iomap_readahead_actor
    \/ Running /\ ReadaheadFinish

NextWrite ==
    \/ Running /\ \E pos \in 0 .. nr_folios * PageSize - 1, len \in 1 .. PageSize :
                     /\ (pos % PageSize) + len <= PageSize
                     /\ iomap_write_begin("write", pos, len)
    \/ Running /\ iomap_write_begin_eintr
    \/ Running /\ iomap_write_begin_return
    \/ Running /\ \E copied \in 0 .. PageSize :
                     copied <= wctx.len /\ iomap_write_end(copied)
    \/ Running /\ iomap_write_failed
    \/ Running /\ iomap_write_actor_done

NextWritepage ==
    \/ Running /\ \E p \in Pages : iomap_do_writepage(p)
    \/ Running /\ iomap_writepages_end
    \/ Running /\ iomap_writepage_end_bio

NextWb ==
    \/ NextWritepage
    \/ Running /\ bio_chain_endio

\* writeback with deferred completion
NextIoend ==
    \/ NextWb
    \/ Running /\ ioend_end_bio_deferred
    \/ Running /\ iomap_sort_ioends
    \/ Running /\ iomap_ioend_try_merge
    \/ Running /\ iomap_finish_merged

\* a file whose folios are all valid and dirty
InitDirty ==
    /\ InitIdle
    /\ i_size = nr_folios * PageSize
    /\ folio = [p \in Pages |->
                  [NewFolio EXCEPT
                      !.private = blocks_per_folio > 1,
                      !.uptodate_bits = IF blocks_per_folio > 1
                                        THEN Blocks ELSE {},
                      !.uptodate = TRUE, !.dirty = TRUE]]

SpecIoend == InitDirty /\ [][NextIoend]_vars

\* one folio under single-page reads, buffered writes, writeback and release
Next ==
    \/ NextReadpage
    \/ NextWrite
    \/ NextWritepage
    \/ Running /\ \E p \in Pages : iomap_releasepage(p)

Spec == Init /\ [][Next]_vars

\* reads and readahead over a page cache at rest
NextRead ==
    \/ NextReadpage
    \/ NextReadahead

SpecRead == InitCached /\ [][NextRead]_vars

\* writeback passes over a page cache at rest
SpecWb == InitCached /\ [][NextWb]_vars

\* the reader's turns, and the two specifications with the scheduling the
\* claims about progress assume: a started read runs to its end, a submitted
\* bio completes, and a writeback pass reaches its end
ReaderStep ==
    \/ ReadpageApplyError
    \/ ReadpageApply
    \/ ReadpageFinish
    \/ ReadaheadApplyError
    \/ ReadaheadApply
    \/ iomap_readahead_actor
    \/ ReadaheadFinish

InitFairRead ==
    /\ Init0
    /\ nr_folios * blocks_per_folio <= MaxFairBlocks

FairRead ==
    /\ InitFairRead
    /\ [][NextRead]_vars
    /\ WF_vars(Running /\ ReaderStep)
    /\ \A p \in 0 .. MaxFolios - 1 : WF_vars(Running /\ ReadEndIoOn(p))

InitFairWb ==
    /\ InitCached
    /\ nr_folios * blocks_per_folio <= MaxFairBlocks

FairWb ==
    /\ InitFairWb
    /\ [][NextWb]_vars
    /\ WF_vars(Running /\ iomap_writepages_end)
    /\ WF_vars(Running /\ iomap_writepage_end_bio)
    /\ WF_vars(Running /\ bio_chain_endio)

\* ----------------------------------------------------------------- claims
\* bios of the reader that hold a range of folio p: submitted and not yet
\* completed, or still being built
ReadBios == rbios \cup (IF rctx.bio # NoBio THEN {rctx.bio} ELSE {})
ReadQueued(p) ==
    \E bio \in ReadBios : \E k \in 1 .. Len(bio.segs) : bio.segs[k].page = p

\* the reader is still working on folio p, or has yet to take it
ReaderHolds(p) ==
    /\ rctx.op # "idle"
    /\ \/ rctx.cur_folio = p
       \/ rctx.op = "readahead" /\ p \in rctx.rac_index .. rctx.rac_end - 1

\* ioends that hold a block of folio p: submitted and not yet finished, or
\* cached in the writeback context
WriteIoends == wios \cup (IF wpc.ioend # NoIoend THEN {wpc.ioend} ELSE {})
WriteQueued(p) ==
    \E io \in WriteIoends :
        \E k \in 1 .. Len(io.chain_segs \o io.bio.segs) :
            (io.chain_segs \o io.bio.segs)[k].page = p

\* C1: for every folio with a sub-block record, the bitmap is full exactly
\* when the folio's uptodate flag is set.
C1_BitmapFullIffUptodate ==
    \A p \in Pages :
        folio[p].private =>
            ((folio[p].uptodate_bits = Blocks) <=> folio[p].uptodate)

\* C2: a folio locked for read stays locked while the reader is still working
\* on it and while a range of it sits in a read bio that has not completed.
C2_NoPrematureReadUnlock ==
    \A p \in Pages :
        (ReaderHolds(p) \/ ReadQueued(p)) => folio[p].locked = "read"

C2_Witness ==
    \E p \in Pages :
        /\ rctx.op # "idle" /\ rctx.cur_folio = p
        /\ \E bio \in rbios : \E k \in 1 .. Len(bio.segs) : bio.segs[k].page = p
        /\ folio[p].read_bytes_pending > 0
        /\ folio[p].uptodate_bits # {}

\* C3: no folio is unlocked twice on the read path.  Each step that unlocks a
\* folio locked for read is either a bio completion, and then the folio had a
\* range queued and has none left, or a step of the reader, and then no range
\* of the folio was queued; and no step unlocks a folio that is not locked.
C3_ReadUnlockOnce ==
    [][\A p \in Pages :
          /\ "unlock_unlocked" \notin folio'[p].bad
          /\ (folio[p].locked = "read" /\ folio'[p].locked = "none") =>
                IF rctx' = rctx
                THEN ReadQueued(p) /\ ~ReadQueued(p)'
                ELSE ~ReadQueued(p)]_vars

C3_Witness ==
    /\ rctx.op = "readpage" /\ rctx.brk /\ rctx.bio # NoBio
    /\ rctx.pos % PageSize # 0
    /\ folio[rctx.cur_folio].locked = "read"
    /\ folio[rctx.cur_folio].error
    /\ folio[rctx.cur_folio].read_bytes_pending > 0

\* C4: the writeback flag of a folio is never cleared while a block of the
\* folio sits in an ioend that has not finished, and end_folio_writeback is
\* never called on a folio that is not under writeback.
C4_WritebackClearedOnce ==
    \A p \in Pages :
        /\ "end_writeback_not_writeback" \notin folio[p].bad
        /\ WriteQueued(p) => folio[p].writeback

C4_Witness ==
    \E p \in Pages :
        /\ folio[p].writeback /\ folio[p].error
        /\ folio[p].write_bytes_pending > 0
        /\ \E io \in wios : io.inflight > 0

\* C5: the pending counters are never negative; read_bytes_pending is zero
\* on a folio that is not locked for read, write_bytes_pending is zero on a
\* folio that is not under writeback, and the assertions of
\* iomap_writepage_map and iomap_finish_folio_write do not fire.
C5_PendingCounters ==
    \A p \in Pages :
        /\ folio[p].read_bytes_pending >= 0
        /\ folio[p].write_bytes_pending >= 0
        /\ folio[p].locked # "read" => folio[p].read_bytes_pending = 0
        /\ ~folio[p].writeback => folio[p].write_bytes_pending = 0
        /\ folio[p].bad \cap {"writepage_map_no_iop",
                              "writepage_map_write_pending",
                              "finish_write_no_iop",
                              "finish_write_not_pending"} = {}

C5_Witness ==
    \E p \in Pages :
        /\ folio[p].private /\ folio[p].uptodate /\ folio[p].error
        /\ folio[p].locked = "none" /\ ~folio[p].writeback
        /\ wb_err /\ wios = {} /\ wpc = IdleWpc /\ rbios = {}

\* C6: every folio under writeback eventually has its writeback flag cleared.
C6_NoStuckWriteback ==
    \A p \in 0 .. MaxFolios - 1 :
        (p < nr_folios /\ folio[p].writeback)
            ~> (p >= nr_folios \/ ~folio[p].writeback)

C6_Witness ==
    \E p \in Pages :
        /\ ~folio[p].writeback /\ folio[p].error /\ ~folio[p].dirty
        /\ wpc = IdleWpc /\ wios = {} /\ wb_err

\* C7: every folio locked for read or readahead is eventually unlocked.
C7_ReadUnlocks ==
    \A p \in 0 .. MaxFolios - 1 :
        (p < nr_folios /\ folio[p].locked = "read")
            ~> (p >= nr_folios \/ folio[p].locked = "none")

C7_Witness ==
    \E p \in Pages :
        /\ folio[p].locked = "none" /\ folio[p].error
        /\ folio[p].uptodate_bits # {} /\ ~folio[p].uptodate
        /\ rctx = IdleReader /\ rbios = {}

\* C8: bytes of a buffered write that reported success are never replaced by
\* the read path before writeback has walked their block: reading them back
\* yields the written bytes.
C8_RoundTrip == \A p \in Pages : ~folio[p].clobbered

\* C9: when __iomap_write_end is called with copied < len on a folio that is
\* not uptodate, it reports 0 bytes, changes no bit of the bitmap and does
\* not change the dirty flag.
C9_TornWrite ==
    (wctx.op = "copy" /\ ~wctx.inline /\ ~folio[wctx.folio].uptodate) =>
        \A copied \in 0 .. wctx.len - 1 :
            /\ iomap_write_end_blocks(folio, wctx.folio, wctx.pos, wctx.len,
                                      copied).ret = 0
            /\ iomap_write_end_blocks(folio, wctx.folio, wctx.pos, wctx.len,
                                      copied).f = folio

C9_Witness ==
    /\ wctx.op = "short" /\ wctx.ret = 0 /\ wctx.len > 1
    /\ ~folio[wctx.folio].uptodate
    /\ ~folio[wctx.folio].dirty
    /\ folio[wctx.folio].private
    /\ folio[wctx.folio].uptodate_bits # {}

\* C10: when __iomap_write_end does not discard the write (copied = len, or
\* the folio is uptodate), it reports copied bytes, marks the folio dirty and
\* adds to the valid blocks exactly the blocks touching
\* [offset_in_page, offset_in_page + copied).
C10_WriteEndMarks ==
    (wctx.op = "copy" /\ ~wctx.inline) =>
        \A copied \in 0 .. wctx.len :
            (copied = wctx.len \/ folio[wctx.folio].uptodate) =>
                /\ iomap_write_end_blocks(folio, wctx.folio, wctx.pos,
                                          wctx.len, copied).ret = copied
                /\ iomap_write_end_blocks(folio, wctx.folio, wctx.pos,
                                          wctx.len, copied).f[wctx.folio].dirty
                /\ ValidBlocks(iomap_write_end_blocks(
                                  folio, wctx.folio, wctx.pos, wctx.len,
                                  copied).f[wctx.folio])
                   = ValidBlocks(folio[wctx.folio])
                     \cup BlocksTouching(wctx.pos % PageSize, copied)

\* C11: after write_end the recorded size is max(previous size, pos +
\* copied) for the copied bytes handed to write_end.
C11_SizeIsPosPlusCopied ==
    (wctx.op = "copy" /\ ~wctx.inline) =>
        \A copied \in 0 .. wctx.len :
            iomap_write_end_size(
                i_size, wctx.pos,
                iomap_write_end_blocks(folio, wctx.folio, wctx.pos, wctx.len,
                                       copied).ret).i_size
            = Max(i_size, wctx.pos + copied)

\* C11 as the code has it: after write_end the recorded size is max(previous
\* size, pos + the bytes write_end reports), no step decreases it, and the
\* size-changed flag of the extent is set exactly when the size grew.
C11_SizeIsPosPlusReported ==
    [][/\ i_size' >= i_size
       /\ (wctx.op = "copy" /\ wctx'.op # "copy") =>
             /\ i_size' = Max(i_size, wctx.pos + wctx'.ret)
             /\ wctx'.size_changed <=> (i_size' > i_size)]_vars

C11_Witness ==
    /\ wctx.op = "short" /\ wctx.ret > 0 /\ wctx.size_changed
    /\ i_size = wctx.pos + wctx.ret

\* the blocks a write of [from, to) inside a folio covers only in part
PartialBlocks(from, to) ==
    {b \in {from \div BlockSize} : from % BlockSize # 0}
    \cup {b \in {(to - 1) \div BlockSize} : to % BlockSize # 0}

\* C12 for one return res of the loop of __iomap_write_begin entered with
\* folio fo, for the write [from, to) and the source extent srcmap
WriteBeginContract(res, p, fo, from, to, unshare, srcmap, isize) ==
    /\ \A s \in res.spans :
          /\ \/ unshare
             \/ s.poff < from /\ from < s.poff + s.plen
             \/ s.poff < to /\ to < s.poff + s.plen
          /\ (s.how = "zero") <=>
                (srcmap.type # "MAPPED" \/ srcmap.new \/ s.pos >= isize)
    /\ \A s \in res.skipped :
          /\ from <= s.poff /\ s.poff + s.plen <= to
          /\ BlocksTouching(s.poff, s.plen) \cap ValidBlocks(res.f[p]) = {}
    /\ ValidBlocks(res.f[p]) =
          ValidBlocks(fo)
          \cup UNION {BlocksTouching(s.poff, s.plen) : s \in res.spans}
    /\ PartialBlocks(from, to) \subseteq ValidBlocks(res.f[p])

\* C12: on a folio that is not uptodate, write_begin reads or zero-fills a
\* not-valid span only when a boundary of the write range falls strictly
\* inside it (or for unshare), leaves spans wholly inside the write range
\* untouched and not valid, and on success has every block the write covers
\* only in part marked valid, zero-filled for hole, unwritten and new
\* extents and past EOF, read from storage otherwise.
C12_WriteBeginFills ==
    wctx.op = "begin" =>
        \A srcmap \in WriteSrcmaps(wctx.kind, wctx.pos, wctx.len),
           nfail \in 0 .. 2 :
            (/\ srcmap.type # "INLINE"
             /\ iomap_write_begin_fill(
                   folio, wctx.folio, wctx.pos, wctx.len,
                   wctx.kind = "unshare", srcmap, i_size, nfail).status = "ok")
            => WriteBeginContract(
                  iomap_write_begin_fill(
                     folio, wctx.folio, wctx.pos, wctx.len,
                     wctx.kind = "unshare", srcmap, i_size, nfail),
                  wctx.folio, folio[wctx.folio],
                  wctx.pos % PageSize, (wctx.pos % PageSize) + wctx.len,
                  wctx.kind = "unshare", srcmap, i_size)

\* C13: a folio is locked by the write path exactly from a successful
\* write_begin (and while write_begin runs) until the matching write_end:
\* an error return of write_begin and every return of write_end, a torn
\* write included, leave it unlocked, and it is unlocked once.
C13_WriteLockBracket ==
    \A p \in Pages :
        /\ (folio[p].locked = "write") <=>
              (wctx.op \in {"begin", "copy"} /\ wctx.folio = p)
        /\ "unlock_unlocked" \notin folio[p].bad

C13_Witness ==
    /\ wctx.op = "failed"
    /\ folio[wctx.folio].locked = "none"
    /\ folio[wctx.folio].private /\ ~folio[wctx.folio].uptodate

\* C14: iomap_write_begin entered with a fatal signal pending returns
\* -EINTR and changes no folio flag, no bit of a bitmap, no pending counter,
\* no bio or ioend and not the file size, also when the folio is held by a
\* reader or is under writeback.
C14_SignalChangesNothing ==
    [][(wctx.op = "idle" /\ wctx'.op = "eintr") =>
          /\ folio' = folio
          /\ i_size' = i_size
          /\ rbios' = rbios /\ rctx' = rctx
          /\ wios' = wios /\ wpc' = wpc /\ wb_err' = wb_err]_vars

C14_Witness ==
    /\ wctx.op = "eintr"
    /\ \E p \in Pages : ~folio[p].private /\ ~folio[p].uptodate

\* the segments of a payload laid end to end in the file from offset on
RECURSIVE SegsCover(_, _)
SegsCover(segs, offset) ==
    \/ segs = <<>>
    \/ /\ Head(segs).page * PageSize + Head(segs).off = offset
       /\ SegsCover(Tail(segs), offset + Head(segs).len)

IoendSegs(io) == io.chain_segs \o io.bio.segs

\* the ioends of the pass and of the device
LiveIoends == wios \cup ({wpc.ioend} \ {NoIoend})

\* iomap_add_to_ioend of the block at offset of folio p, mapped by iomap,
\* with io the open ioend
AddToOpenIoend(io, p, offset, iomap) ==
    iomap_add_to_ioend([f |-> folio, ioend |-> io, list |-> <<>>,
                        count |-> 0, error |-> FALSE], p, offset, iomap)

AppendsToIoend(io, r, p, offset) ==
    /\ r.list = <<>>
    /\ r.ioend.io_offset = io.io_offset
    /\ r.ioend.io_size = io.io_size + BlockSize
    /\ r.ioend.io_type = io.io_type /\ r.ioend.io_shared = io.io_shared
    /\ SegBytes(IoendSegs(r.ioend)) = SegBytes(IoendSegs(io)) + BlockSize

OpensIoend(io, r, p, offset, iomap) ==
    /\ r.list = <<io>>
    /\ r.ioend.io_offset = offset
    /\ r.ioend.io_size = BlockSize
    /\ r.ioend.io_type = iomap.type /\ r.ioend.io_shared = iomap.shared
    /\ IoendSegs(r.ioend) =
          <<[page |-> p, off |-> offset % PageSize, len |-> BlockSize]>>

\* C15: with an ioend open, a block is appended to it exactly when its
\* extent has the type and the SHARED flag of the ioend, its file offset is
\* io_offset + io_size and its sector is the end sector of the ioend's bio;
\* otherwise the open ioend is put on the submit list and a new one is
\* opened at the block's offset.  Every ioend of the pass or submitted
\* covers one contiguous file range of io_size bytes, the sum of its blocks.
C15_AppendOrOpen ==
    /\ \A io \in LiveIoends :
          /\ io.io_size = SegBytes(IoendSegs(io))
          /\ io.io_size > 0
          /\ SegsCover(IoendSegs(io), io.io_offset)
    /\ wpc.ioend # NoIoend =>
          \A p \in Pages, i \in Blocks :
             \A iomap \in {m \in MapOutcomes : m.type \notin {"ERROR", "HOLE"}} :
                IF /\ iomap.type = wpc.ioend.io_type
                   /\ iomap.shared = wpc.ioend.io_shared
                   /\ p * PageSize + i * BlockSize =
                         wpc.ioend.io_offset + wpc.ioend.io_size
                   /\ iomap_sector(iomap, p * PageSize + i * BlockSize) =
                         bio_end_sector(wpc.ioend.bio)
                THEN AppendsToIoend(wpc.ioend,
                        AddToOpenIoend(wpc.ioend, p,
                                       p * PageSize + i * BlockSize, iomap),
                        p, p * PageSize + i * BlockSize)
                ELSE OpensIoend(wpc.ioend,
                        AddToOpenIoend(wpc.ioend, p,
                                       p * PageSize + i * BlockSize, iomap),
                        p, p * PageSize + i * BlockSize, iomap)

\* an open ioend of two blocks or more, behind a submitted one that ends
\* where it starts
C15_Witness ==
    /\ wpc.ioend # NoIoend
    /\ wpc.ioend.io_size > BlockSize
    /\ \E io \in wios : io.io_offset + io.io_size = wpc.ioend.io_offset

\* end_offset of iomap_do_writepage for a folio that is not past EOF
WritepageEnd(p) ==
    IF p < i_size \div PageSize THEN (p + 1) * PageSize ELSE i_size

\* the blocks of folio p a pass writes under the answers maps
WrittenBlocks(p, maps) ==
    {i \in Blocks :
        /\ p * PageSize + i * BlockSize < WritepageEnd(p)
        /\ folio[p].private => i \in folio[p].uptodate_bits
        /\ maps[i].type # "HOLE"}

\* no block of folio p below EOF fails to map
MapsAll(p, maps) ==
    \A i \in Blocks :
       (/\ p * PageSize + i * BlockSize < WritepageEnd(p)
        /\ folio[p].private => i \in folio[p].uptodate_bits)
       => maps[i].type # "ERROR"

\* C16: a pass with no ioend open that writes back one folio whose written
\* blocks are contiguous in the file, of one extent type and SHARED state
\* and contiguous on storage leaves exactly one ioend, open in the pass and
\* none submitted, that starts at the first of those blocks and whose
\* io_size and payload are those blocks.
C16_OneIoendPerRun ==
    \A p \in Pages :
       (/\ wpc.ioend = NoIoend
        /\ folio[p].dirty /\ folio[p].locked = "none" /\ ~folio[p].writeback
        /\ p * PageSize < i_size)
       => \A maps \in [Blocks -> MapOutcomes], fail_at \in 0 .. 2 :
             \A w \in {WrittenBlocks(p, maps)} :
                (/\ MapsAll(p, maps)
                 /\ w # {}
                 /\ \A i, j \in w : maps[i] = maps[j]
                 /\ \A i, j \in w : \A k \in Blocks : i < k /\ k < j => k \in w)
                => \E m \in {iomap_writepage_map(
                                writepage_folio(folio, p), NoIoend, p,
                                WritepageEnd(p), maps, fail_at)} :
                      /\ m.wios = wios
                      /\ ~m.error
                      /\ m.ioend # NoIoend
                      /\ \A i \in w : \A j \in w : i <= j =>
                            m.ioend.io_offset <= p * PageSize + i * BlockSize
                      /\ \E i \in w :
                            m.ioend.io_offset = p * PageSize + i * BlockSize
                      /\ m.ioend.io_size = Cardinality(w) * BlockSize
                      /\ IoendSegs(m.ioend) =
                            <<[page |-> p,
                               off |-> m.ioend.io_offset % PageSize,
                               len |-> Cardinality(w) * BlockSize]>>
                      /\ m.f[p].writeback

\* one folio written back into one open ioend of two blocks, none submitted
C16_Witness ==
    /\ wpc.op = "pass" /\ wpc.next = 1 /\ wios = {}
    /\ wpc.ioend # NoIoend
    /\ wpc.ioend.io_size = 2 * BlockSize
    /\ folio[0].writeback /\ folio[0].write_bytes_pending = 2 * BlockSize

RECURSIVE SumSizes(_)
SumSizes(list) ==
    IF list = <<>> THEN 0 ELSE Head(list).io_size + SumSizes(Tail(list))

\* next has the completion status, the SHARED flag and the Unwritten-ness
\* of target and starts at the byte end
Mergeable(target, end, next) ==
    /\ next.err = target.err
    /\ next.io_shared = target.io_shared
    /\ (next.io_type = "UNWRITTEN") <=> (target.io_type = "UNWRITTEN")
    /\ next.io_offset = end

\* merged and rest are what a merge into target from the list more leaves
MergedFromHead(target, more, merged, rest) ==
    \E k \in 0 .. Len(more) :
       /\ merged.io_list = SubSeq(more, 1, k)
       /\ rest = SubSeq(more, k + 1, Len(more))
       /\ \A j \in 1 .. k :
             Mergeable(target,
                       target.io_offset + target.io_size
                          + SumSizes(SubSeq(more, 1, j - 1)),
                       more[j])
       /\ k < Len(more) =>
             ~Mergeable(target,
                        target.io_offset + target.io_size
                           + SumSizes(SubSeq(more, 1, k)),
                        more[k + 1])
       /\ merged.io_offset = target.io_offset
       /\ merged.io_size = target.io_size + SumSizes(SubSeq(more, 1, k))
       /\ [merged EXCEPT !.io_list = <<>>, !.io_size = target.io_size] = target

\* C17: iomap_ioend_try_merge moves ioends from the head of the list to the
\* target, in order, while each has the target's completion status, SHARED
\* flag and Unwritten-ness and starts at the target's io_offset + io_size,
\* and stops at the first that does not; the target's io_size is then the
\* sum of its own and the absorbed ioends' sizes.
C17_MergeFromHead ==
    [][(ioend_merged = NoIoend /\ ioend_merged' # NoIoend) =>
          MergedFromHead(Head(ioend_list), Tail(ioend_list),
                         ioend_merged', ioend_list')]_vars

\* a merge that absorbed an ioend and stopped before one it could have
\* taken had it looked further
C17_Witness ==
    /\ ioend_merged # NoIoend
    /\ ioend_merged.io_list # <<>>
    /\ Len(ioend_list) >= 2
    /\ Mergeable(ioend_merged, ioend_merged.io_offset + ioend_merged.io_size,
                 ioend_list[2])

\* the extent types an ioend can carry: iomap_writepage_map hands no hole
\* and no inline extent to iomap_add_to_ioend
IoendTypes == ExtentTypes \ {"HOLE", "INLINE"}

\* the ioends queued for deferred completion or merged
RECURSIVE SeqToSet(_)
SeqToSet(list) ==
    IF list = <<>> THEN {} ELSE {Head(list)} \cup SeqToSet(Tail(list))

QueuedIoends ==
    SeqToSet(ioend_list) \cup SeqToSet(ioend_merged.io_list)
       \cup ({ioend_merged} \ {NoIoend})

\* the ioends of list follow one another from the byte end on and have the
\* extent type type
RECURSIVE MergedRun(_, _, _)
MergedRun(list, end, type) ==
    \/ list = <<>>
    \/ /\ Head(list).io_offset = end
       /\ Head(list).io_type = type
       /\ MergedRun(Tail(list), end + Head(list).io_size, type)

\* C18: iomap_ioend_can_merge refuses two ioends with a gap between them
\* (next.io_offset is not io_offset + io_size) and two ioends of different
\* extent types, for every pair of the types an ioend can carry; the ioends
\* a merge absorbed follow the target without a gap and have its type.
C18_NoMergeAcrossGapOrType ==
    /\ \A a \in QueuedIoends : a.io_type \in IoendTypes
    /\ \A a, b \in QueuedIoends : \A ta, tb \in IoendTypes :
          (\/ a.io_offset + a.io_size # b.io_offset
           \/ ta # tb)
          => ~iomap_ioend_can_merge([a EXCEPT !.io_type = ta],
                                    [b EXCEPT !.io_type = tb])
    /\ ioend_merged # NoIoend =>
          MergedRun(ioend_merged.io_list,
                    ioend_merged.io_offset
                       + (ioend_merged.io_size
                             - SumSizes(ioend_merged.io_list)),
                    ioend_merged.io_type)

\* a merged ioend, and behind it in the list one of the other type starting
\* where it ends and one of its type after a gap
C18_Witness ==
    /\ ioend_merged # NoIoend
    /\ ioend_merged.io_list # <<>>
    /\ \E b \in SeqToSet(ioend_list) :
          /\ b.io_type # ioend_merged.io_type
          /\ b.io_offset = ioend_merged.io_offset + ioend_merged.io_size
          /\ b.err = ioend_merged.err /\ b.io_shared = ioend_merged.io_shared

\* how often each ioend occurs in a list
BagOfIoends(list) ==
    [e \in SeqToSet(list) |->
        Cardinality({k \in 1 .. Len(list) : list[k] = e})]

\* C19: iomap_sort_ioends leaves a permutation of the list it was given,
\* ordered by non-decreasing io_offset.
C19_SortedPermutation ==
    [][(~ioends_sorted /\ ioends_sorted') =>
          /\ BagOfIoends(ioend_list') = BagOfIoends(ioend_list)
          /\ Len(ioend_list') = Len(ioend_list)
          /\ \A j, k \in 1 .. Len(ioend_list') :
                j < k => ioend_list'[j].io_offset <= ioend_list'[k].io_offset]_vars

\* a sorted list of three ioends that completed in another order: the
\* first of them differs from the others in size
C19_Witness ==
    /\ ioends_sorted
    /\ Len(ioend_list) >= 3
    /\ ioend_list[1].io_size > ioend_list[2].io_size

\* the bytes of folio p in a payload
RECURSIVE PageBytes(_, _)
PageBytes(segs, p) ==
    IF segs = <<>> THEN 0
    ELSE (IF Head(segs).page = p THEN Head(segs).len ELSE 0)
            + PageBytes(Tail(segs), p)

\* the bytes of folio p in the chained and current bios of a set of ioends
RECURSIVE IoendsBytes(_, _)
IoendsBytes(S, p) ==
    IF S = {} THEN 0
    ELSE PageBytes(IoendSegs(CHOOSE io \in S : TRUE), p)
            + IoendsBytes(S \ {CHOOSE io \in S : TRUE}, p)

\* every ioend that is not finished: open, submitted, queued or merged
UnfinishedIoends == LiveIoends \cup QueuedIoends

\* C20: for every folio the bytes counted in write_bytes_pending are the
\* bytes of its blocks in the ioends not yet finished, chained bios and
\* ioends absorbed by a merge included: completion subtracts what the
\* appends added, no block is completed twice, and a folio is under
\* writeback exactly while an unfinished ioend holds a block of it.
C20_CompletionConservation ==
    \A p \in Pages :
       /\ folio[p].private =>
             folio[p].write_bytes_pending = IoendsBytes(UnfinishedIoends, p)
       /\ folio[p].writeback <=> IoendsBytes(UnfinishedIoends, p) > 0
       /\ IoendsBytes(UnfinishedIoends, p) <= PageSize
       /\ folio[p].bad \cap {"finish_write_not_pending",
                             "end_writeback_not_writeback"} = {}

\* iomap_finish_ioends has finished a merged ioend and the ioends it had
\* absorbed, which ended the writeback of a folio with a sub-block record
C20_Witness ==
    /\ ioends_finished >= 2
    /\ ioend_merged = NoIoend
    /\ \E p \in Pages :
          /\ folio[p].private /\ ~folio[p].writeback /\ ~folio[p].dirty
          /\ folio[p].write_bytes_pending = 0
    /\ UnfinishedIoends = {}

\* the step completes blocks of folio p: its bytes in the ioends of the
\* pass and of the device go down
CompletesOn(p) == IoendsBytes(LiveIoends, p) > IoendsBytes(LiveIoends', p)

\* C21: a step that completes blocks of folios either is a failure, and
\* then every such folio has its error flag set and the mapping records the
\* error, or is a success, and then no folio's error flag and not the
\* mapping's error change.  An ioend failed by the pass (at submission) is
\* a failure.
C21_CompletionError ==
    [][(folio' # folio /\ \E p \in Pages : CompletesOn(p)) =>
          \/ /\ wb_err'
             /\ \A p \in Pages : CompletesOn(p) => folio'[p].error
          \/ /\ wpc' = wpc
             /\ wb_err' = wb_err
             /\ \A p \in Pages : folio'[p].error = folio[p].error]_vars

\* after a failed ioend over two folios both carry the error flag, their
\* writeback has ended and the mapping records the error
C21_Witness ==
    /\ wb_err /\ wios = {} /\ wpc = IdleWpc
    /\ \E p, q \in Pages :
          /\ p # q
          /\ folio[p].error /\ folio[q].error
          /\ ~folio[p].writeback /\ ~folio[q].writeback
          /\ ~folio[p].dirty /\ ~folio[q].dirty

\* every folio of the payload is under writeback
PayloadUnderWriteback(segs) ==
    \A k \in 1 .. Len(segs) : folio[segs[k].page].writeback

\* C22: an ioend holding more segments than one bio takes is a chain: every
\* bio before the last is full and was submitted when the next was linked,
\* the bios in flight are among them, and as long as a chained bio is in
\* flight or the last bio is not submitted or not completed, the ioend is
\* not finished: every folio of its chained and current bios is under
\* writeback.
C22_ChainCompletesFirst ==
    \A io \in LiveIoends :
       /\ Len(io.bio.segs) \in 1 .. BioMaxVecs
       /\ Len(io.chain_segs) % BioMaxVecs = 0
       /\ io.inflight \in 0 .. (Len(io.chain_segs) \div BioMaxVecs)
       /\ (io.chain_segs # <<>>) <=> (Len(IoendSegs(io)) > BioMaxVecs)
       /\ (io.inflight > 0 \/ io.final # "done") =>
             PayloadUnderWriteback(IoendSegs(io))
       /\ io.final = "done" => io.inflight > 0

\* the last bio of a chain has completed without error while a chained bio
\* is in flight, and the folios are under writeback
C22_Witness ==
    \E io \in wios :
       /\ io.final = "done" /\ ~io.err
       /\ io.inflight > 0
       /\ Len(IoendSegs(io)) >= 2
       /\ PayloadUnderWriteback(IoendSegs(io))

\* the blocks of folio p the pass asks map_blocks about
MappedBlocks(p) ==
    {i \in Blocks :
        /\ p * PageSize + i * BlockSize < WritepageEnd(p)
        /\ folio[p].private => i \in folio[p].uptodate_bits}

\* map_blocks fails for a block of folio p before any block is queued
FailsBeforeQueue(p, maps) ==
    \E i \in MappedBlocks(p) :
       /\ maps[i].type = "ERROR"
       /\ \A j \in MappedBlocks(p) : j < i => maps[j].type = "HOLE"

\* the pass queues no block of folio p
QueuesNothing(p, maps) ==
    \/ FailsBeforeQueue(p, maps)
    \/ \A i \in MappedBlocks(p) : maps[i].type = "HOLE"

\* iomap_do_writepage may be handed folio p, which is not past EOF
WritepageReady(p) ==
    /\ folio[p].dirty /\ folio[p].locked = "none" /\ ~folio[p].writeback
    /\ p * PageSize < i_size

\* what iomap_writepage_map returns for folio p under the answers maps
WritepageMapOf(p, maps, fail_at) ==
    iomap_writepage_map(writepage_folio(folio, p), wpc.ioend, p,
                        WritepageEnd(p), maps, fail_at)

RECURSIVE SegsOffsets(_, _)
SegsOffsets(segs, p) ==
    IF segs = <<>> THEN {}
    ELSE (IF Head(segs).page = p
          THEN Head(segs).off .. (Head(segs).off + Head(segs).len - 1)
          ELSE {})
         \cup SegsOffsets(Tail(segs), p)

\* the bytes of folio p in the bios of a set
BiosOffsets(bios, p) == UNION {SegsOffsets(bio.segs, p) : bio \in bios}

\* the bytes of the reader's folio that the actor's call a queued for read
ActorReads(a) ==
    BiosOffsets({a.ctx.bio} \cup a.sub, a.ctx.cur_folio)
       \ BiosOffsets({rctx.bio}, a.ctx.cur_folio)

\* the reader is about to call iomap_readpage_actor
ActorReady ==
    \/ rctx.op = "readpage" /\ ~rctx.brk /\ rctx.length > 0
    \/ /\ rctx.op = "readahead" /\ rctx.ext # NoExt
       /\ readahead_next_folio(rctx).cur_folio < rctx.rac_end

\* the extents the next call may be given and the calls themselves
ActorExtents ==
    IF rctx.op = "readpage"
    THEN {e \in iomap_apply_extents(rctx.pos, rctx.length) : e.type # "INLINE"}
    ELSE {rctx.ext} \ {e \in {rctx.ext} : e.type = "INLINE"}

ActorCall(iomap, fallback) ==
    IF rctx.op = "readpage"
    THEN iomap_readpage_actor(folio, rctx, rctx.pos, iomap.len, iomap,
                              i_size, fallback)
    ELSE iomap_readpage_actor(
            IF rctx.cur_folio # NoFolio /\ rctx.pos % PageSize = 0
               /\ ~rctx.cur_folio_in_bio
            THEN unlock_folio(folio, rctx.cur_folio) ELSE folio,
            readahead_next_folio(rctx), rctx.pos, rctx.ext.len, rctx.ext,
            i_size, fallback)

\* the bytes of the folio the call went over, as offsets in the folio
ActorRange(a) ==
    (rctx.pos % PageSize) .. ((rctx.pos % PageSize) + a.ret - 1)

\* C24 as stated: of the bytes a call of the read actor goes over, those of
\* a Hole, Unwritten or NEW extent and those at or beyond i_size are not
\* queued for read and lie in blocks marked valid when the call returns.
C24_NoReadPastEofByte ==
    ActorReady =>
       \A iomap \in ActorExtents, fallback \in BOOLEAN :
          \E a \in {ActorCall(iomap, fallback)} :
             \A b \in ActorRange(a) :
                (\/ iomap.type # "MAPPED" \/ iomap.new
                 \/ a.ctx.cur_folio * PageSize + b >= i_size)
                => /\ b \notin ActorReads(a)
                   /\ b \div BlockSize \in ValidBlocks(a.f[a.ctx.cur_folio])

\* C24: a call of the read actor queues no byte of a Hole, Unwritten or NEW
\* extent for read and counts none in read_bytes_pending, and queues no
\* byte of a block that starts at or beyond i_size; the block holding
\* i_size is read whole.  Every block the call goes over is valid, or
\* queued and counted, when it returns, unless the folio carries the error
\* flag, and the bytes queued are the bytes counted.
C24_NoReadPastEofBlock ==
    ActorReady =>
       \A iomap \in ActorExtents, fallback \in BOOLEAN :
          \E a \in {ActorCall(iomap, fallback)} :
             /\ (iomap.type # "MAPPED" \/ iomap.new) => ActorReads(a) = {}
             /\ \A b \in ActorReads(a) :
                   a.ctx.cur_folio * PageSize + (b \div BlockSize) * BlockSize
                      < i_size
             /\ \A b \in ActorRange(a) :
                   \/ b \in ActorReads(a)
                   \/ b \div BlockSize \in ValidBlocks(a.f[a.ctx.cur_folio])
                   \/ a.f[a.ctx.cur_folio].error
             /\ a.f[a.ctx.cur_folio].private =>
                   a.f[a.ctx.cur_folio].read_bytes_pending
                      = folio[a.ctx.cur_folio].read_bytes_pending
                           + Cardinality(ActorReads(a))

\* readahead has queued the block holding i_size, bytes past i_size
\* included, and marked a block beyond it valid without queueing it
C24_Witness ==
    /\ rctx.op = "readahead" /\ rctx.cur_folio # NoFolio
    /\ \E b \in BiosOffsets({rctx.bio}, rctx.cur_folio) :
          rctx.cur_folio * PageSize + b >= i_size
    /\ \E i \in folio[rctx.cur_folio].uptodate_bits :
          /\ rctx.cur_folio * PageSize + i * BlockSize >= i_size
          /\ i * BlockSize \notin BiosOffsets({rctx.bio} \cup rbios,
                                              rctx.cur_folio)

\* the operation op has left its loop on a failure of iomap_apply while
\* working on folio p
FailedOn(op, p) ==
    /\ p < nr_folios
    /\ rctx.op = op /\ rctx.brk /\ rctx.cur_folio = p

\* C25 as stated: the folio a single-page read or a readahead was working
\* on when iomap_apply failed gets the error flag and is unlocked.
C25_ResolverFailureFlags ==
    \A p \in 0 .. MaxFolios - 1 :
       (FailedOn("readpage", p) \/ FailedOn("readahead", p))
          ~> (p < nr_folios /\ folio[p].error /\ folio[p].locked = "none")

\* C25: the folio a single-page read was working on when iomap_apply failed
\* has the error flag and is unlocked, at once or when its queued reads
\* have completed.  A failure of iomap_apply in readahead flags no folio;
\* the folio it was working on is unlocked, at once or when its queued
\* reads have completed.
C25_ResolverFailure ==
    /\ \A p \in 0 .. MaxFolios - 1 :
          FailedOn("readpage", p)
             ~> (p < nr_folios /\ folio[p].error /\ folio[p].locked = "none")
    /\ \A p \in 0 .. MaxFolios - 1 :
          FailedOn("readahead", p)
             ~> (p < nr_folios /\ folio[p].locked = "none")
    /\ [][(rctx.op = "readahead" /\ ~rctx.brk /\ rctx'.brk) =>
             folio' = folio]_vars

\* iomap_apply failed in a single-page read after a block was queued: the
\* folio has the error flag and is held by the bio
C25_Witness ==
    /\ rctx.op = "readpage" /\ rctx.brk
    /\ rctx.bio # NoBio /\ rctx.cur_folio_in_bio
    /\ folio[rctx.cur_folio].error
    /\ folio[rctx.cur_folio].locked = "read"

\* ---- the values the public operations return ----

MaxWriteLen == 3

\* the error codes of this file: -EFAULT, -EIO, -EINTR
Errnos == {-14, -5, -4}

\* what successive calls of iomap_apply return to the loop of a public
\* operation: the bytes advanced, or 0 or an error code of the resolver or
\* of the actor
ApplyScripts == [1 .. MaxWriteLen -> Errnos \cup (0 .. MaxWriteLen)]

\* iomap_file_buffered_write that returns the bytes written whatever failed
file_buffered_write_ret_written(written, ret) == written

\* the return of iomap_file_buffered_write (and of iomap_write_actor, on
\* its own counters)
iomap_file_buffered_write_ret(written, ret) ==
    IF written # 0 THEN written ELSE ret

\* the loop of iomap_file_buffered_write over count bytes, rets being
\* what the calls of iomap_apply return from the k-th on
RECURSIVE iomap_file_buffered_write_loop(_, _, _, _, _)
iomap_file_buffered_write_loop(count, rets, k, ret, written) ==
    IF count = 0 \/ k > Len(rets)
    THEN iomap_file_buffered_write_ret(written, ret)
    ELSE IF rets[k] <= 0
         THEN iomap_file_buffered_write_ret(written, rets[k])
         ELSE iomap_file_buffered_write_loop(count - rets[k], rets, k + 1,
                                             rets[k], written + rets[k])

iomap_file_buffered_write(count, rets) ==
    iomap_file_buffered_write_loop(count, rets, 1, 0, 0)

\* the loop of iomap_file_unshare and of iomap_zero_range over len bytes
RECURSIVE iomap_zero_range_loop(_, _, _)
iomap_zero_range_loop(len, rets, k) ==
    IF len <= 0 \/ k > Len(rets) THEN 0
    ELSE IF rets[k] <= 0 THEN rets[k]
         ELSE iomap_zero_range_loop(len - rets[k], rets, k + 1)

iomap_zero_range(len, rets) == iomap_zero_range_loop(len, rets, 1)

iomap_file_unshare(len, rets) == iomap_zero_range_loop(len, rets, 1)

\* the return of iomap_readpage
iomap_readpage_ret(ctx) == 0

\* the return of iomap_writepages and of iomap_writepage after a pass that
\* left w: TRUE for an error code
iomap_writepages_ret(w, prepare_fails) ==
    IF w.ioend = NoIoend THEN w.ret
    ELSE iomap_submit_ioend([f |-> folio, wios |-> wios, error |-> w.ret],
                            w.ioend, prepare_fails).error

\* the bytes the first k calls of a script advanced over
RECURSIVE Advanced(_, _)
Advanced(rets, k) ==
    IF k = 0 THEN 0 ELSE Advanced(rets, k - 1) + Max(rets[k], 0)

\* the scripts in which the k-th call is the first that fails, len bytes
\* being asked for and not yet consumed
FailsAt(len, k) ==
    {rets \in ApplyScripts :
        /\ rets[k] < 0
        /\ \A j \in 1 .. k - 1 : rets[j] > 0
        /\ Advanced(rets, k - 1) < len}

\* the kinds of operation whose actor has failed in this state
FailedKinds ==
    IF wctx.op = "failed" THEN {wctx.kind}
    ELSE IF wctx.op = "eintr" THEN WriteKinds ELSE {}

\* the value the operation of this kind returns
PublicRet(kind, len, rets) ==
    IF kind = "write" THEN iomap_file_buffered_write(len, rets)
    ELSE IF kind = "zero" THEN iomap_zero_range(len, rets)
    ELSE iomap_file_unshare(len, rets)

\* write, zero, unshare and writeback return the error of a failure that
\* comes before any byte, a write that advanced the bytes written
WritersReport ==
    /\ \A kind \in FailedKinds, len \in 1 .. MaxWriteLen,
          k \in 1 .. MaxWriteLen :
         \A rets \in FailsAt(len, k) :
            PublicRet(kind, len, rets) =
               IF kind = "write" /\ Advanced(rets, k - 1) > 0
               THEN Advanced(rets, k - 1) ELSE rets[k]
    /\ (wpc.op = "pass" /\ wpc.ret) =>
          \A prepare_fails \in BOOLEAN :
             iomap_writepages_ret(wpc, prepare_fails)

\* C26 as stated: every public operation returns the error code of a
\* resolver or actor failure that happens before any byte was processed,
\* single-page read included; a write that already advanced returns the
\* bytes written so far.
C26_EveryOperationReports ==
    /\ WritersReport
    /\ \A p \in Pages :
         (FailedOn("readpage", p) /\ rctx.pos = p * PageSize) =>
            iomap_readpage_ret(rctx) \in Errnos

\* C26: write, zero, unshare and writeback return the error code of a
\* resolver or actor failure that happens before any byte was processed,
\* and a write that already advanced returns the bytes written so far;
\* single-page read returns 0 whatever failed and reports the failure by
\* the error flag of the page alone.
C26_FailureReported ==
    /\ WritersReport
    /\ \A p \in Pages :
         FailedOn("readpage", p) =>
            iomap_readpage_ret(rctx) = 0 /\ folio[p].error

\* a write whose write_begin failed, while a writeback pass has met an
\* error and a single-page read has failed before its first byte
C26_Witness ==
    /\ wctx.op = "failed" /\ wctx.kind = "write"
    /\ wpc.op = "pass" /\ wpc.ret
    /\ \E p \in Pages : FailedOn("readpage", p) /\ rctx.pos = p * PageSize

\* the byte ranges of a folio a caller can pass down: not empty, inside it
FolioRanges ==
    {r \in (0 .. PageSize - 1) \X (1 .. PageSize) : r[1] + r[2] <= PageSize}

\* the blocks that share a byte with [off, off + len)
Touches(off, len) ==
    {b \in Blocks : b * BlockSize < off + len /\ (b + 1) * BlockSize > off}

\* a read bio completes in this step
ReadCompletes == rbios' # rbios /\ rbios' \subseteq rbios

\* what iomap_set_range_uptodate(off, len) makes of folio p
MarkValid(p, off, len) == iomap_set_range_uptodate(folio, p, off, len)[p]

\* C27: mark_valid(off, len) on a page without the error flag sets exactly
\* the bitmap bits of the blocks touching [off, off + len) and sets the
\* uptodate flag exactly when the bitmap becomes full (on a page without a
\* record it sets the uptodate flag directly); on a page with the error
\* flag it changes neither the bitmap nor the uptodate flag, so that after
\* a failed read completion the later completions on the page mark nothing
\* valid as long as the error flag is set.
C27_MarkValid ==
    /\ [](\A p \in Pages, r \in FolioRanges :
            \E g \in {MarkValid(p, r[1], r[2])} :
               /\ folio[p].error => g = folio[p]
               /\ (~folio[p].error /\ folio[p].private) =>
                     /\ g.uptodate_bits =
                           folio[p].uptodate_bits \cup Touches(r[1], r[2])
                     /\ g.uptodate =
                           (folio[p].uptodate \/ g.uptodate_bits = Blocks)
                     /\ g = [folio[p] EXCEPT
                               !.uptodate_bits = g.uptodate_bits,
                               !.uptodate = g.uptodate]
               /\ (~folio[p].error /\ ~folio[p].private) =>
                     g = [folio[p] EXCEPT !.uptodate = TRUE])
    /\ [][ReadCompletes =>
            \A p \in Pages :
               folio[p].error =>
                  /\ folio'[p].error
                  /\ folio'[p].uptodate_bits = folio[p].uptodate_bits
                  /\ folio'[p].uptodate => folio[p].uptodate]_vars

\* a page with a record on which a read completion has failed while another
\* read of it is still to complete
C27_Witness ==
    \E p \in Pages :
       /\ folio[p].error /\ folio[p].private
       /\ folio[p].locked = "read"
       /\ folio[p].read_bytes_pending > 0
       /\ folio[p].uptodate_bits # Blocks
       /\ \E bio \in rbios : \E k \in 1 .. Len(bio.segs) : bio.segs[k].page = p


\* two byte ranges of a folio that share a byte
Overlap(r1, r2) == r1[1] < r2[1] + r2[2] /\ r2[1] < r1[1] + r1[2]

\* the least range that holds both
RangeUnion(r1, r2) ==
    <<Min(r1[1], r2[1]),
      Max(r1[1] + r1[2], r2[1] + r2[2]) - Min(r1[1], r2[1])>>

\* iomap_set_range_uptodate called on folio p for each range of a sequence
RECURSIVE MarkValidEach(_, _, _)
MarkValidEach(f, p, ranges) ==
    IF ranges = <<>> THEN f
    ELSE MarkValidEach(
            iomap_set_range_uptodate(f, p, Head(ranges)[1], Head(ranges)[2]),
            p, Tail(ranges))

\* the orders and repetitions of two calls (the others by exchanging them)
CallOrders(r1, r2) ==
    {<<r1, r2>>, <<r1, r1, r2>>, <<r1, r2, r1>>, <<r1, r2, r2>>,
     <<r1, r2, r1, r2>>}

\* C28: for two overlapping non-empty ranges of a page, mark_valid called
\* on each, in either order and any number of times, leaves the bitmap and
\* the uptodate flag as one call on the union of the two ranges leaves them.
C28_MarkValidUnion ==
    \A p \in Pages, r1 \in FolioRanges, r2 \in FolioRanges :
       Overlap(r1, r2) =>
          \E u \in {MarkValidEach(folio, p, <<RangeUnion(r1, r2)>>)} :
             \A calls \in CallOrders(r1, r2) :
                MarkValidEach(folio, p, calls) = u

\* a page with a record, no error flag and some but not all blocks valid,
\* which two overlapping ranges touching different blocks make uptodate
C28_Witness ==
    \E p \in Pages :
       /\ folio[p].private /\ ~folio[p].error /\ ~folio[p].uptodate
       /\ folio[p].uptodate_bits # {}
       /\ \E r1 \in FolioRanges, r2 \in FolioRanges :
            /\ Overlap(r1, r2)
            /\ Touches(r1[1], r1[2]) # Touches(r2[1], r2[2])
            /\ ~MarkValidEach(folio, p, <<r2>>)[p].uptodate
            /\ MarkValidEach(folio, p, <<r2, r1>>)[p].uptodate


\* the block-aligned requests inside folio p: position and length in bytes
BlockRequests(p) ==
    {[pos |-> p * PageSize + b1 * BlockSize,
      length |-> (b2 - b1 + 1) * BlockSize, first |-> b1, last |-> b2] :
        <<b1, b2>> \in {r \in Blocks \X Blocks : r[1] <= r[2]}}

\* the span iomap_adjust_read_range leaves of request q on folio p
NeededRange(p, q) == iomap_adjust_read_range(folio, p, q.pos, q.length, i_size)

\* the requested blocks at the head of q that are marked valid
LeadingValid(p, q) ==
    {b \in q.first .. q.last :
        \A j \in q.first .. b : j \in folio[p].uptodate_bits}

\* end-of-file lies inside request q, bytes of the file before it
StraddlesEof(q) == q.pos < i_size /\ i_size < q.pos + q.length

\* the end of the block that holds the last byte of the file
EofBlockEnd == (((i_size - 1) \div BlockSize) + 1) * BlockSize

\* the span and the position against the bitmap, whatever end-of-file is
SpanAvoidsValid(p, q, r) ==
    LET valid == folio[p].uptodate_bits
        req == q.first .. q.last
        span == Touches(r.poff, r.plen)
    IN  /\ r.plen >= 0 /\ r.plen % BlockSize = 0
        /\ span \subseteq req
        /\ span \cap valid = {}
        /\ (r.plen = 0) = (req \subseteq valid)
        /\ req \ valid # {} =>
              r.poff = FirstIn(req \ valid, 0) * BlockSize
        /\ r.pos - q.pos = Cardinality(LeadingValid(p, q)) * BlockSize
        /\ r.poff = (q.pos % PageSize) + (r.pos - q.pos)

\* C29 as stated: for every bitmap and every block-aligned request inside a
\* page the span of compute_needed_range begins at the first requested block
\* not marked valid, holds no valid block, is empty exactly when every
\* requested block is valid, and the position advances by the leading valid
\* blocks; when the request straddles end-of-file the span does not extend
\* past the end of the block that holds the last byte of the file.
C29_NeededRangeClipped ==
    \A p \in Pages :
       folio[p].private =>
          \A q \in BlockRequests(p) :
             \E r \in {NeededRange(p, q)} :
                /\ SpanAvoidsValid(p, q, r)
                /\ StraddlesEof(q) =>
                      p * PageSize + r.poff + r.plen <= EofBlockEnd

\* C29: the same of the span and of the position; when the request
\* straddles end-of-file and the span begins in or before the block that
\* holds the last byte of the file, the span does not extend past the end of
\* that block (a span that begins after it is left whole).
C29_NeededRange ==
    \A p \in Pages :
       folio[p].private =>
          \A q \in BlockRequests(p) :
             \E r \in {NeededRange(p, q)} :
                /\ SpanAvoidsValid(p, q, r)
                /\ (StraddlesEof(q) /\ r.plen > 0
                    /\ p * PageSize + r.poff < EofBlockEnd) =>
                      p * PageSize + r.poff + r.plen <= EofBlockEnd
                /\ (StraddlesEof(q) /\ r.plen > 0
                    /\ p * PageSize + r.poff >= EofBlockEnd) =>
                      Touches(r.poff, r.plen) =
                         (r.poff \div BlockSize) ..
                            (FirstIn({j \in (r.poff \div BlockSize) .. q.last :
                                         j \in folio[p].uptodate_bits},
                                     q.last + 1) - 1)

\* a page with a record and two requests: one that loses leading and
\* trailing valid blocks, one that straddles end-of-file and is cut there
\* although the block after is not valid
C29_Witness ==
    \E p \in Pages :
       /\ folio[p].private
       /\ \E q \in BlockRequests(p) :
            /\ NeededRange(p, q).pos > q.pos
            /\ NeededRange(p, q).plen > 0
            /\ NeededRange(p, q).pos + NeededRange(p, q).plen
                  < q.pos + q.length
       /\ \E q \in BlockRequests(p) :
            /\ StraddlesEof(q)
            /\ NeededRange(p, q).plen > 0
            /\ p * PageSize + NeededRange(p, q).poff
                  + NeededRange(p, q).plen = EofBlockEnd
            /\ (EofBlockEnd \div BlockSize) % blocks_per_folio
                  \notin folio[p].uptodate_bits


\* iomap_is_partially_uptodate that tests the first block of the range only
is_partially_uptodate_first_block(f, p, from, count) ==
    [f |-> f,
     ret |-> f[p].private /\ (from \div BlockSize) \in f[p].uptodate_bits]

\* iomap_is_partially_uptodate(folio, from, count), from inside the folio
\* and count positive: the folios as it leaves them and what it returns
iomap_is_partially_uptodate(f, p, from, count) ==
    LET len == Min(PageSize - from, count)
        first == from \div BlockSize
        last == (from + len - 1) \div BlockSize
    IN  [f |-> f,
         ret |-> IF ~f[p].private THEN FALSE
                 ELSE \A i \in first .. last : i \in f[p].uptodate_bits]

\* the ranges a caller asks about: from inside the folio, count positive,
\* the end inside the folio or beyond it
UptodateQueries == (0 .. PageSize - 1) \X (1 .. PageSize + 1)

\* C30: partially_uptodate(page, from, count) returns true only if the page
\* has a sub-block record and every block touching [from, from + count),
\* clipped to the page, is marked valid; it returns false if any such block
\* is not valid; it changes no state.
C30_PartiallyUptodate ==
    \A p \in Pages, q \in UptodateQueries :
       \E u \in {iomap_is_partially_uptodate(folio, p, q[1], q[2])} :
          /\ u.f = folio
          /\ u.ret =
                (/\ folio[p].private
                 /\ \A b \in Blocks :
                      (/\ b * BlockSize < q[1] + q[2]
                       /\ b * BlockSize < PageSize
                       /\ (b + 1) * BlockSize > q[1])
                         => b \in folio[p].uptodate_bits)

\* a page with a record and some but not all blocks valid, for which one
\* range inside it gets true, one gets false, and one that runs beyond the
\* end of the page gets true
C30_Witness ==
    \E p \in Pages :
       /\ folio[p].private /\ ~folio[p].uptodate
       /\ \E q \in UptodateQueries :
            /\ q[1] + q[2] <= PageSize /\ q[2] > BlockSize
            /\ iomap_is_partially_uptodate(folio, p, q[1], q[2]).ret
       /\ \E q \in UptodateQueries :
            /\ q[1] + q[2] <= PageSize
            /\ ~iomap_is_partially_uptodate(folio, p, q[1], q[2]).ret
       /\ \E q \in UptodateQueries :
            /\ q[1] + q[2] > PageSize
            /\ iomap_is_partially_uptodate(folio, p, q[1], q[2]).ret


\* C31: ensure(page) attaches a new record only when the page holds more
\* than one block and has no record: the new record has both pending
\* counters zero and a bitmap that is full if the page is uptodate and empty
\* otherwise; a record that exists is left as it is, a second call changes
\* nothing, and a page of one block gets no record.
C31_PageCreate ==
    \A p \in Pages :
       \E g \in {iomap_page_create(folio, p)} :
          /\ \A q \in Pages \ {p} : g[q] = folio[q]
          /\ (folio[p].private \/ blocks_per_folio <= 1) => g[p] = folio[p]
          /\ (~folio[p].private /\ blocks_per_folio > 1) =>
                /\ g[p].private
                /\ g[p].read_bytes_pending = 0
                /\ g[p].write_bytes_pending = 0
                /\ g[p].uptodate_bits =
                      (IF folio[p].uptodate THEN 0 .. blocks_per_folio - 1
                       ELSE {})
                /\ [g[p] EXCEPT !.private = FALSE,
                                !.uptodate_bits = folio[p].uptodate_bits,
                                !.read_bytes_pending =
                                   folio[p].read_bytes_pending,
                                !.write_bytes_pending =
                                   folio[p].write_bytes_pending] = folio[p]
          /\ iomap_page_create(g, p) = g

\* an uptodate page of several blocks whose record was released, which a
\* write is about to be given: the record ensure makes has a full bitmap
C31_Witness ==
    /\ blocks_per_folio > 1
    /\ wctx.op = "idle"
    /\ \E p \in Pages :
         /\ ~folio[p].private /\ folio[p].uptodate
         /\ folio[p].locked = "none"
         /\ iomap_page_create(folio, p)[p].private
         /\ iomap_page_create(folio, p)[p].uptodate_bits = Blocks

\* the marks a release leaves when it finds a pending counter not zero
PendingAtRelease == {"release_read_pending", "release_write_pending"}

\* C32: a record is never detached while a pending counter is not zero:
\* releasepage returns 0 and keeps the record of a page that is dirty or
\* under writeback, and no release through releasepage or through the
\* invalidation of a whole page finds read_bytes_pending or
\* write_bytes_pending nonzero.
C32_NoReleaseWhilePending ==
    \A p \in Pages :
       /\ folio[p].bad \cap PendingAtRelease = {}
       /\ (folio[p].dirty \/ folio[p].writeback) =>
             /\ iomap_releasepage_ret(folio, p).ret = 0
             /\ iomap_releasepage_ret(folio, p).f = folio
       /\ (folio[p].locked = "none" /\ folio[p].private) =>
             /\ iomap_releasepage_ret(folio, p).f[p].bad
                   \cap PendingAtRelease = {}
             /\ (~folio[p].dirty /\ ~folio[p].writeback) =>
                   /\ iomap_releasepage_ret(folio, p).ret = 1
                   /\ ~iomap_releasepage_ret(folio, p).f[p].private
       /\ (folio[p].locked = "none" /\ ~folio[p].writeback) =>
             iomap_invalidatepage(folio, p)[p].bad \cap PendingAtRelease = {}
       /\ (folio[p].read_bytes_pending # 0
           \/ folio[p].write_bytes_pending # 0) =>
             folio[p].private /\ (folio[p].locked = "read" \/ folio[p].writeback)

\* an unlocked page under writeback whose record counts bytes in flight:
\* releasepage, called on it, refuses and the record stays
C32_Witness ==
    \E p \in Pages :
       /\ folio[p].private /\ folio[p].locked = "none"
       /\ folio[p].writeback /\ folio[p].write_bytes_pending > 0
       /\ iomap_releasepage_ret(folio, p).ret = 0
       /\ iomap_releasepage_ret(folio, p).f[p].private

\* ---- unshare and zero over a cached file under writeback ----

\* the two early returns of iomap_unshare_actor
unshare_actor_skips(shared, srcmap) ==
    ~shared \/ srcmap.type \in {"HOLE", "UNWRITTEN"}

\* iomap_unshare_actor given an extent it does not act on: it returns length
iomap_unshare_actor_skip(pos, length) ==
    /\ wctx.op = "idle"
    /\ \E shared \in BOOLEAN, srcmap \in iomap_apply_srcmaps(pos, length) :
         /\ srcmap.type # "INLINE"
         /\ unshare_actor_skips(shared, srcmap)
    /\ wctx' = [IdleWriter EXCEPT !.op = "done", !.kind = "unshare",
                                  !.pos = pos, !.len = length,
                                  !.ret = length]
    /\ UNCHANGED <<conf, markers, endio, i_size, folio, rctx, rbios, wbvars>>

\* iomap_unshare_actor given a SHARED extent with data behind it: one turn
\* of its loop begins in the folio that holds pos
iomap_unshare_actor(pos, len) ==
    /\ \E srcmap \in iomap_apply_srcmaps(pos, len) :
         srcmap.type # "INLINE" /\ ~unshare_actor_skips(TRUE, srcmap)
    /\ iomap_write_begin("unshare", pos, len)

\* the byte ranges inside one folio the actors work on in one turn
FolioChunks ==
    {c \in (0 .. nr_folios * PageSize - 1) \X (1 .. PageSize) :
        (c[1] % PageSize) + c[2] <= PageSize}

NextUnshare ==
    \/ Running /\ \E c \in FolioChunks : iomap_unshare_actor_skip(c[1], c[2])
    \/ Running /\ \E c \in FolioChunks : iomap_unshare_actor(c[1], c[2])
    \/ Running /\ iomap_write_begin_return
    \/ Running /\ iomap_write_end(wctx.len)
    \/ Running /\ iomap_write_actor_done
    \/ Running /\ iomap_write_failed
    \/ NextWritepage

\* one cached folio of one or two blocks
InitOneCached ==
    /\ InitCached
    /\ nr_folios = 1 /\ blocks_per_folio <= 2

SpecUnshare == InitOneCached /\ [][NextUnshare]_vars

\* the blocks of the chunk the writer is on
ChunkBlocks == BlocksTouching(wctx.pos % PageSize, wctx.len)

\* __iomap_write_begin for unshare read every block of the chunk that was
\* not valid, block by block in full, and passed over none
UnshareReadsAll(res, fo) ==
    /\ res.skipped = {}
    /\ \A sp \in res.spans :
          /\ sp.how = "read"
          /\ sp.poff % BlockSize = 0 /\ sp.plen % BlockSize = 0
    /\ UNION {BlocksTouching(sp.poff, sp.plen) : sp \in res.spans} =
          ChunkBlocks \ ValidBlocks(fo)

\* C33: unshare acts only on extents flagged SHARED whose source is neither
\* a hole nor unwritten; a turn on such an extent that succeeds has read in
\* full every block of its range that was not valid, whether the range
\* covers it or not, and leaves every block of the range valid and the page
\* dirty; for every other extent no page, bitmap, counter or size changes
\* and the whole length is reported as processed.
C33_Unshare ==
    /\ [](\A shared \in BOOLEAN, t \in ExtentTypes \ {"INLINE"} :
             unshare_actor_skips(shared, [type |-> t]) =
                (~shared \/ t \in {"HOLE", "UNWRITTEN"}))
    /\ []((wctx.op = "begin" /\ wctx.kind = "unshare") =>
             \A srcmap \in WriteSrcmaps("unshare", wctx.pos, wctx.len),
                nfail \in 0 .. 2 :
                \E b \in {iomap_write_begin_fill(
                             folio, wctx.folio, wctx.pos, wctx.len, TRUE,
                             srcmap, i_size, nfail)} :
                   (srcmap.type # "INLINE" /\ b.status = "ok") =>
                      UnshareReadsAll(b, folio[wctx.folio]))
    /\ [][/\ (wctx.op = "idle" /\ wctx'.op = "done") =>
               /\ wctx'.ret = wctx'.len
               /\ folio' = folio /\ i_size' = i_size
               /\ rbios' = rbios /\ wios' = wios
          /\ (wctx.kind = "unshare" /\ wctx.op = "copy" /\ wctx'.op = "done"
              /\ ~wctx.inline) =>
               /\ ChunkBlocks \subseteq ValidBlocks(folio'[wctx.folio])
               /\ folio'[wctx.folio].dirty]_vars


\* iomap_zero_range_actor that reports zeroing for an extent it passes over
zero_range_actor_skip_reports(pos, length) ==
    /\ wctx.op = "idle"
    /\ \E srcmap \in iomap_apply_srcmaps(pos, length) :
         srcmap.type \in {"HOLE", "UNWRITTEN"}
    /\ wctx' = [wctx EXCEPT !.op = "done", !.kind = "zero", !.pos = pos,
                            !.len = length, !.ret = length,
                            !.did_zero = TRUE]
    /\ UNCHANGED <<conf, markers, endio, i_size, folio, rctx, rbios, wbvars>>

\* iomap_zero_range_actor given a hole or an unwritten extent: it returns
\* length
iomap_zero_range_actor_skip(pos, length) ==
    /\ wctx.op = "idle"
    /\ \E srcmap \in iomap_apply_srcmaps(pos, length) :
         srcmap.type \in {"HOLE", "UNWRITTEN"}
    /\ wctx' = [wctx EXCEPT !.op = "done", !.kind = "zero", !.pos = pos,
                            !.len = length, !.ret = length]
    /\ UNCHANGED <<conf, markers, endio, i_size, folio, rctx, rbios, wbvars>>

\* iomap_zero_range_actor given any other extent: iomap_zero begins on the
\* folio that holds pos
iomap_zero_range_actor(pos, len) == iomap_write_begin("zero", pos, len)

NextZero ==
    \/ Running /\ \E c \in FolioChunks : iomap_zero_range_actor_skip(c[1], c[2])
    \/ Running /\ \E c \in FolioChunks : iomap_zero_range_actor(c[1], c[2])
    \/ Running /\ iomap_write_begin_return
    \/ Running /\ iomap_write_end(wctx.len)
    \/ Running /\ iomap_write_actor_done
    \/ Running /\ iomap_write_failed
    \/ NextWritepage

SpecZero == InitOneCached /\ [][NextZero]_vars

\* C34: zero over a hole or an unwritten source extent changes no page,
\* bitmap, counter or file size, issues no I/O and leaves did_zero as it
\* was; did_zero becomes true exactly when an extent that is neither was
\* zeroed through write_begin and write_end, and is never reset.
C34_ZeroSkipsHoles ==
    [][/\ (wctx.op = "idle" /\ wctx'.op = "done") =>
            /\ wctx'.ret = wctx'.len
            /\ wctx'.did_zero = wctx.did_zero
            /\ folio' = folio /\ i_size' = i_size
            /\ rbios' = rbios /\ wios' = wios /\ wb_err' = wb_err
       /\ (wctx'.did_zero # wctx.did_zero) =>
            /\ wctx'.did_zero
            /\ wctx.op = "copy" /\ wctx.kind = "zero" /\ wctx'.op = "done"
            /\ wctx'.ret = wctx.len
            /\ folio[wctx.folio].locked = "write"
            /\ folio'[wctx.folio].locked = "none"
       /\ (wctx.op = "copy" /\ wctx.kind = "zero" /\ wctx'.op # "copy") =>
            wctx'.did_zero
       /\ (wctx.op \in {"begin", "failed"} /\ wctx'.op # wctx.op) =>
            wctx'.did_zero = wctx.did_zero]_vars

\* zero has passed over a hole after it zeroed a block through write_begin
\* and write_end, and before that block was written back
C34_Witness ==
    /\ wctx.op = "done" /\ wctx.kind = "zero" /\ wctx.folio = NoFolio
    /\ wctx.did_zero
    /\ \E p \in Pages : folio[p].dirty /\ folio[p].fresh # {}


\* the values of BIO_MAX_PAGES the allocations are looked at for
BioPages == 1 .. 3

\* the lengths an actor is called with
ActorLengths == 1 .. nr_folios * PageSize

\* the pages a read of length bytes spans
NrVecs(length) == (length + PageSize - 1) \div PageSize

\* the read bios and the writeback bios that exist
ReadBiosBuilt == rbios \cup ({rctx.bio} \ {NoBio})
IoendBiosBuilt == {io.bio : io \in LiveIoends}

Marker(t) == markers.th[t]

\* caller t moves to pc
MarkerGoes(t, pc) == [markers EXCEPT !.th[t].pc = pc]

\* iomap_iop_set_range_uptodate taking uptodate_lock whoever holds it
iop_lock_unguarded(t) ==
    /\ Marker(t).pc = "lock"
    /\ markers' = [markers EXCEPT !.lock[Marker(t).p] = t,
                                  !.th[t].pc = "load"]
    /\ UNCHANGED <<conf, endio, i_size, folio, rctx, rbios, wctx, wbvars>>

\* iomap_set_range_uptodate entered for [off, off + len) of folio p: the
\* test of the error flag, then SetFolioUptodate for a folio with no
\* iomap_page, else on to iomap_iop_set_range_uptodate
iomap_set_range_uptodate_enter(t, p, off, len) ==
    /\ Marker(t).pc = "idle"
    /\ markers' = [markers EXCEPT
                      !.th[t] = [pc |-> IF ~folio[p].error /\ folio[p].private
                                        THEN "lock" ELSE "done",
                                 p |-> p, off |-> off, len |-> len,
                                 word |-> {}]]
    /\ folio' = IF ~folio[p].error /\ ~folio[p].private
                THEN [folio EXCEPT ![p].uptodate = TRUE]
                ELSE folio
    /\ UNCHANGED <<conf, endio, i_size, rctx, rbios, wctx, wbvars>>

\* spin_lock_irqsave(&iop->uptodate_lock)
iop_lock(t) ==
    /\ Marker(t).pc = "lock"
    /\ markers.lock[Marker(t).p] = 0
    /\ markers' = [markers EXCEPT !.lock[Marker(t).p] = t,
                                  !.th[t].pc = "load"]
    /\ UNCHANGED <<conf, endio, i_size, folio, rctx, rbios, wctx, wbvars>>

\* bitmap_set, which is not atomic: the word of the bitmap is read ...
iop_bitmap_load(t) ==
    /\ Marker(t).pc = "load"
    /\ markers' = [markers EXCEPT
                      !.th[t].word = folio[Marker(t).p].uptodate_bits,
                      !.th[t].pc = "store"]
    /\ UNCHANGED <<conf, endio, i_size, folio, rctx, rbios, wctx, wbvars>>

\* ... and written back with the bits first .. last set
iop_bitmap_store(t) ==
    /\ Marker(t).pc = "store"
    /\ folio' = [folio EXCEPT ![Marker(t).p].uptodate_bits =
                    Marker(t).word
                       \cup BlocksTouching(Marker(t).off, Marker(t).len)]
    /\ markers' = MarkerGoes(t, "full")
    /\ UNCHANGED <<conf, endio, i_size, rctx, rbios, wctx, wbvars>>

\* if (bitmap_full(...)) SetFolioUptodate(folio)
iop_bitmap_full(t) ==
    /\ Marker(t).pc = "full"
    /\ folio' = IF folio[Marker(t).p].uptodate_bits = Blocks
                THEN [folio EXCEPT ![Marker(t).p].uptodate = TRUE]
                ELSE folio
    /\ markers' = MarkerGoes(t, "unlock")
    /\ UNCHANGED <<conf, endio, i_size, rctx, rbios, wctx, wbvars>>

\* spin_unlock_irqrestore(&iop->uptodate_lock)
iop_unlock(t) ==
    /\ Marker(t).pc = "unlock"
    /\ markers' = [markers EXCEPT !.lock[Marker(t).p] = 0,
                                  !.th[t].pc = "done"]
    /\ UNCHANGED <<conf, endio, i_size, folio, rctx, rbios, wctx, wbvars>>

NextMark ==
    \/ \E t \in Markers, p \in Pages, r \in FolioRanges :
          iomap_set_range_uptodate_enter(t, p, r[1], r[2])
    \/ \E t \in Markers : iop_lock(t)
    \/ \E t \in Markers : iop_bitmap_load(t)
    \/ \E t \in Markers : iop_bitmap_store(t)
    \/ \E t \in Markers : iop_bitmap_full(t)
    \/ \E t \in Markers : iop_unlock(t)

\* one clean folio of one or two blocks of a page cache at rest, with or
\* without the error flag a failed read leaves
InitMark ==
    /\ InitIdle
    /\ nr_folios = 1 /\ blocks_per_folio <= 2
    /\ i_size = nr_folios * PageSize
    /\ folio \in [Pages ->
          {[fo EXCEPT !.error = e] :
              <<fo, e>> \in {x \in CachedFolios \X BOOLEAN :
                               /\ IsCached(x[1]) /\ ~x[1].dirty
                               /\ x[2] => ~x[1].uptodate}}]

SpecMark == InitMark /\ [][NextMark]_vars


\* the blocks caller t marks
MarkerBlocks(t) == BlocksTouching(Marker(t).off, Marker(t).len)

\* caller t is inside the function, on the path through the bitmap of p
MarksBitmap(t, p) ==
    /\ Marker(t).pc # "idle" /\ Marker(t).p = p
    /\ folio[p].private /\ ~folio[p].error

\* caller t holds the uptodate_lock of p
InLock(t, p) ==
    Marker(t).p = p /\ Marker(t).pc \in {"load", "store", "full", "unlock"}

\* every caller that entered has returned, and one at least has entered
AllMarked ==
    /\ \A t \in Markers : Marker(t).pc \in {"idle", "done"}
    /\ \E t \in Markers : Marker(t).pc = "done"

\* C36: callers of mark_valid running at the same time on a page never
\* lose a bit of its bitmap.  The bitmap is read and written by the holder
\* of the record's lock alone; a step never clears a bit, and sets none but
\* those of the caller that stores; the blocks of a caller that has stored
\* are in the bitmap; and once all callers have returned, the page of a
\* full bitmap, or without a record, has the uptodate flag, unless the error
\* flag made their calls do nothing.
C36_NoLostBit ==
    /\ [](\A p \in Pages :
            /\ \A t1 \in Markers, t2 \in Markers :
                  InLock(t1, p) /\ InLock(t2, p) => t1 = t2
            /\ \A t \in Markers :
                  InLock(t, p) => markers.lock[p] = t
            /\ \A t \in Markers :
                  MarksBitmap(t, p) /\ Marker(t).pc \in {"full", "unlock", "done"}
                     => MarkerBlocks(t) \subseteq folio[p].uptodate_bits
            /\ AllMarked /\ ~folio[p].error
               /\ (\E t \in Markers : Marker(t).pc = "done" /\ Marker(t).p = p)
               /\ (folio[p].private => folio[p].uptodate_bits = Blocks)
                  => folio[p].uptodate)
    /\ [][\A p \in Pages :
            /\ folio[p].uptodate_bits \subseteq folio'[p].uptodate_bits
            /\ folio'[p].uptodate_bits \subseteq
                  folio[p].uptodate_bits \cup
                     UNION {MarkerBlocks(t) :
                              t \in {u \in Markers :
                                       MarksBitmap(u, p)
                                       /\ Marker(u).pc = "store"}}
            /\ folio[p].error =>
                  /\ folio'[p].uptodate_bits = folio[p].uptodate_bits
                  /\ folio'[p].uptodate = folio[p].uptodate]_vars

\* two callers on the same page, marking different blocks that fill its
\* bitmap between them: one has read the bitmap under the lock and is about
\* to write it, the other waits for the lock
C36_Witness ==
    \E p \in Pages, t1 \in Markers, t2 \in Markers :
       /\ MarksBitmap(t1, p) /\ MarksBitmap(t2, p)
       /\ Marker(t1).pc = "store" /\ Marker(t2).pc = "lock"
       /\ MarkerBlocks(t1) \cap MarkerBlocks(t2) = {}
       /\ MarkerBlocks(t1) \cup MarkerBlocks(t2) = Blocks
       /\ folio[p].uptodate_bits = {} /\ ~folio[p].uptodate


\* the blocks of the writer's folio that hold a byte nothing has written
UninitBlocks == {b \in Blocks : \E x \in wctx.uninit : x \div BlockSize = b}

\* C37: every block marked valid holds initialised data: once write_end
\* has returned, with zero bytes after a torn write or with more, no block
\* of the folio that is marked valid holds a byte of the write range that
\* neither the zero-fill of write_begin nor the copy has written.
C37_ValidInitialised ==
    wctx.op \in {"short", "done"} /\ ~wctx.inline
       => UninitBlocks \cap ValidBlocks(folio[wctx.folio]) = {}


\* iomap_write_end returns in this step, reporting zero bytes
TornWriteEnd == wctx.op = "copy" /\ wctx'.op = "short" /\ wctx'.ret = 0

\* C38: a write_end that reports zero bytes written leaves the size of the
\* file and the size-changed flag of the extent as they were, wherever the
\* write starts, beyond the end of the file included.
C38_TornWriteKeepsSize ==
    [][TornWriteEnd =>
          /\ i_size' = i_size
          /\ wctx'.size_changed = wctx.size_changed]_vars


\* the block loop of iomap_writepage_map on folio p as iomap_do_writepage
\* runs it, map_blocks answering maps
WritepageLoopOf(p, maps) ==
    iomap_writepage_map_loop(
        [f |-> writepage_folio(folio, p), ioend |-> wpc.ioend, list |-> <<>>,
         count |-> 0, error |-> FALSE], p, 0, WritepageEnd(p), maps)

\* the blocks of folio p in the ioends the loop leaves
RECURSIVE QueuedBytes(_, _)
QueuedBytes(list, p) ==
    IF list = <<>> THEN {}
    ELSE SegsOffsets(IoendSegs(Head(list)), p) \cup QueuedBytes(Tail(list), p)

QueuedBlocks(w, p) ==
    {x \div BlockSize :
        x \in QueuedBytes(w.list, p) \cup
              (IF w.ioend = NoIoend THEN {}
               ELSE SegsOffsets(IoendSegs(w.ioend), p))}

\* the blocks of folio p map_blocks is asked about and maps to an extent
\* that is not a hole: those below the end offset, marked valid or of a
\* folio with no record, up to the first one map_blocks fails for
MappedToExtent(p, maps) ==
    {i \in MappedBlocks(p) :
        /\ maps[i].type \notin {"HOLE", "ERROR"}
        /\ \A j \in MappedBlocks(p) : j < i => maps[j].type # "ERROR"}

\* C39: writeback queues a block of a folio if and only if its file offset
\* is below the end offset, it is marked valid or the folio has no record,
\* and map_blocks maps it to an extent that is not a hole; no block at or
\* beyond the end of the file and no block that is not marked valid is in
\* an ioend.
C39_QueuedBlocks ==
    /\ \A p \in Pages :
          WritepageReady(p) /\ p >= wpc.next =>
             \A maps \in [Blocks -> MapOutcomes] :
                \E w \in {WritepageLoopOf(p, maps)} :
                   /\ QueuedBlocks(w, p) = MappedToExtent(p, maps)
                   /\ w.count = Cardinality(MappedToExtent(p, maps))
    /\ \A io \in LiveIoends, p \in Pages :
          \A x \in SegsOffsets(IoendSegs(io), p) :
             /\ p * PageSize + round_down(x, BlockSize) < i_size
             /\ folio[p].private => x \div BlockSize \in folio[p].uptodate_bits

\* a folio with a record that straddles the end of the file is under
\* writeback after a pass walked it: its block at the end of the file is not
\* marked valid and is in no ioend, a valid block of it is in the open one
C39_Witness ==
    \E p \in Pages :
       /\ wpc.op = "pass" /\ wpc.next = p + 1 /\ wpc.ioend # NoIoend
       /\ folio[p].private /\ folio[p].writeback
       /\ p = i_size \div PageSize /\ i_size % PageSize # 0
       /\ \E i \in Blocks :
            /\ i \notin folio[p].uptodate_bits
            /\ p * PageSize + i * BlockSize < i_size
       /\ SegsOffsets(IoendSegs(wpc.ioend), p) # {}


\* the sizes a file of this page cache may have
FileSizes == 0 .. nr_folios * PageSize

\* the bytes iomap_readpage_actor reports for request q of folio p over a
\* file of isize bytes, when the extent is not inline
ActorAdvance(p, q, isize) ==
    LET r == iomap_adjust_read_range(folio, p, q.pos, q.length, isize)
    IN  r.pos - q.pos + r.plen

\* C40: for every request of one block or more, every bitmap and every
\* size of the file, the read actor reports a number of bytes that is
\* positive and not above the length requested; each pass of the loop of
\* the single-page read moves it forward inside the folio, and the loop ends
\* at the end of the folio or at the first failure.
C40_ActorAdvances ==
    /\ [](/\ \A p \in Pages, isize \in FileSizes :
               \A q \in BlockRequests(p) :
                  ActorAdvance(p, q, isize) \in 1 .. q.length
          /\ ActorReady =>
                \A iomap \in ActorExtents, fallback \in BOOLEAN :
                   ActorCall(iomap, fallback).ret \in 1 .. iomap.len
          /\ rctx.op = "readpage" =>
                /\ rctx.length >= 0
                /\ rctx.pos + rctx.length = (rctx.cur_folio + 1) * PageSize)
    /\ [][rctx.op = "readpage" /\ rctx'.op = "readpage" =>
             \/ /\ ~rctx.brk /\ rctx'.brk
                /\ rctx'.pos = rctx.pos
                /\ folio'[rctx.cur_folio].error
             \/ /\ ~rctx.brk /\ ~rctx'.brk
                /\ rctx'.pos > rctx.pos /\ rctx'.length < rctx.length
             \/ rctx' = rctx]_vars
    /\ [][rctx.op = "readpage" /\ rctx'.op = "idle" =>
             rctx.brk \/ rctx.length = 0]_vars

\* the single-page read has gone over part of a folio with a record and is
\* about to call the actor on a block that is marked valid
C40_Witness ==
    /\ rctx.op = "readpage" /\ ~rctx.brk
    /\ rctx.length > 0 /\ rctx.pos % PageSize # 0
    /\ folio[rctx.cur_folio].private
    /\ (rctx.pos % PageSize) \div BlockSize
          \in folio[rctx.cur_folio].uptodate_bits


====
